---- MODULE Spec2Model ----
(***************************************************************************)
(* Film contact sheet generator: the layout engine and compositor of       *)
(* ContactSheet (core/contact_sheet.py), in the three revisions kept in    *)
(* the repository:                                                         *)
(*   "restored"  the text restore_previous_version.py writes to            *)
(*               core/contact_sheet.py                                     *)
(*   "r171305"   backup/contact_sheet_broken_20250612_171305.py            *)
(*   "r165728"   backup/contact_sheet_before_allformats_20250612_165728.py *)
(* One render (create_sheet) is a run of the steps                         *)
(*   calculate_layout -> calculate_optimal_size -> place_images (a loop)   *)
(*   -> add_info_section -> done.                                          *)
(* Around it: the footer drawn by _add_info_section, save_as_pdf, the      *)
(* ImageProcessor (core/image_processor.py) and the handlers of the        *)
(* MainWindow (ui/main_window.py) that load files and update the preview.  *)
(* Specifications:                                                         *)
(*   Spec         create_sheet for every format and image count            *)
(*   SpecFooter   one create_sheet call with every info dict               *)
(*   SpecPdf      save_as_pdf of lists of sheets                           *)
(*   SpecSession  a session of the window with the restored revision       *)
(*   SpecWindow   the window with info edits and export_sheet              *)
(*   SpecRepeat   repeated create_sheet calls on one instance              *)
(*   SpecTieBreak the canvas-size tie-break of the revisions, side by side *)
(*   SpecRotate   the rotation of process_images, image by image           *)
(***************************************************************************)
EXTENDS Integers, Sequences, FiniteSets, TLC

VARIABLES
    rev,            \* which revision of contact_sheet.py is installed
    pc,             \* position inside create_sheet
    film_format,    \* the FilmType handed to create_sheet
    num_images,     \* len(processed_images)
    layout_info,    \* the dict returned by _calculate_layout
    sheet_width,    \* canvas size returned by _calculate_optimal_size
    sheet_height,
    current_row,    \* loop counters of _place_images
    current_col,
    pasted,         \* the sheet.paste calls made so far, in order
    line,           \* the separator line drawn by _add_info_section
    info,           \* the info dict handed to create_sheet
    texts,          \* the draw.text calls of _add_info_section, in order
    pdf_pc,         \* position inside save_as_pdf
    pdf_sheets,     \* the sizes of the sheets handed to save_as_pdf
    pdf_pages,      \* the drawImage/showPage calls made so far, in order
    numbers,        \* the numbers of the processed images create_sheet got
    file_paths,     \* the list handed to the last load_images call
    images,         \* ImageProcessor.images
    processed,      \* ImageProcessor.processed_images
    format_combo,   \* the FilmType of the current item of the combo box
    current_sheet,  \* MainWindow.current_sheet
    has_unsaved_changes,    \* MainWindow.has_unsaved_changes
    message,        \* the QMessageBox the last handler of the window showed
    gui_pc,         \* position inside update_preview and export_sheet
    info_text,      \* the text of the QLineEdit of each info field
    marked,         \* the change indicators of the list, the combo box and
                    \* the info fields
    export_format,  \* the current text of the export_format combo box
    reply,          \* the answer given at the prompt of export_sheet
    save_call,      \* the save operation the last export_sheet call invoked
    fields,         \* the attributes ContactSheet.__init__ sets on self
    earlier,        \* what an earlier create_sheet call of this run returned
    tie,            \* the last canvas-size tie-break evaluated on its own
    catalog,        \* the module-level dict FILM_FORMATS
    rotation        \* the last image process_images handled on its own

vars == <<rev, pc, film_format, num_images, layout_info, sheet_width,
          sheet_height, current_row, current_col, pasted, line, info,
          texts, pdf_pc, pdf_sheets, pdf_pages, numbers, file_paths, images,
          processed, format_combo, current_sheet, has_unsaved_changes,
          message, gui_pc, info_text, marked, export_format, reply,
          save_call, fields, earlier,
          tie, catalog, rotation>>

\* the ContactSheet instance, the record of an earlier call, the tie-break
\* and the image handled on their own, and the catalog
instVars == <<fields, earlier, tie, catalog, rotation>>

\* the state of save_as_pdf
pdfVars == <<pdf_pc, pdf_sheets, pdf_pages>>

\* the state of create_sheet
sheetVars == <<pc, film_format, num_images, layout_info, sheet_width,
               sheet_height, current_row, current_col, pasted, line, info,
               texts, numbers>>

\* the state of the ImageProcessor and of the MainWindow
sessionVars == <<file_paths, images, processed, format_combo,
                 current_sheet, has_unsaved_changes, message, gui_pc,
                 info_text, marked, export_format, reply, save_call>>

\* the info fields and the change indicators
editVars == <<info_text, marked>>

\* the state of export_sheet
exportVars == <<export_format, reply, save_call>>

(***************************************************************************)
(* Bounds of the model.                                                    *)
(***************************************************************************)
\* every image count 0..MaxImages is rendered
MaxImages == 12

\* the image counts of the spec's scenarios A (36) and C (100), rendered too
ScenarioCounts == {36, 100}

ImageCounts == (0..MaxImages) \cup ScenarioCounts

Revisions == {"restored", "r171305", "r165728"}

\* the keys _add_info_section reads from the info dict
InfoKeys == {"date", "location", "developer", "camera", "lens", "film"}

\* the values a key carries: the empty string or a text
InfoStrings == {"", "Tri-X 400"}

\* every dict over InfoKeys: a key is absent or carries one of InfoStrings
InfoDicts == UNION {[D -> InfoStrings] : D \in SUBSET InfoKeys}

\* the dicts the layout runs are rendered with: {} and the dict
\* update_preview builds with every field filled in
InfoSamples ==
    {[k \in {} |-> ""],
     [k \in {"date", "location", "camera", "lens", "film"} |-> "Tri-X 400"]}

\* ImageFont.truetype succeeded, or the except branch loaded the default
Fonts == {"helvetica", "default"}

(***************************************************************************)
(* Python arithmetic.                                                      *)
(***************************************************************************)
\* int(n / d) for an integer n and d > 0: float division, then truncation
\* toward zero (all operands are far below 2^53, so the division is exact
\* enough never to cross an integer).
PyInt(n, d) == IF n >= 0 THEN n \div d ELSE -((-n) \div d)

\* max(a, b)
Max(a, b) == IF a >= b THEN a ELSE b

(***************************************************************************)
(* core/film_formats.py                                                    *)
(***************************************************************************)
FilmType == {"MM35_FULL", "MM35_HALF", "MM120_6X6", "MM120_6X45",
             "MM120_6X7", "MM120_6X8", "MM120_6X9", "MM127_4X4"}

\* aspect_ratio is (width, height).  6x4.5 is (4.5, 6) in the source; it is
\* kept here as the equal ratio (9, 12) so that both parts are integers
\* (x * 6 / 4.5 = x * 12 / 9).
FILM_FORMATS ==
    [t \in FilmType |->
        CASE t = "MM35_FULL" ->
               [type |-> "MM35_FULL", aspect_ratio |-> <<3, 2>>,
                images_per_row |-> 6,
                max_images |-> 36, orientation |-> "landscape",
                force_rotation |-> TRUE]
          [] t = "MM35_HALF" ->
               [type |-> "MM35_HALF", aspect_ratio |-> <<2, 3>>,
                images_per_row |-> 12,
                max_images |-> 72, orientation |-> "portrait",
                force_rotation |-> TRUE]
          [] t = "MM120_6X6" ->
               [type |-> "MM120_6X6", aspect_ratio |-> <<1, 1>>,
                images_per_row |-> 3,
                max_images |-> 12, orientation |-> "square",
                force_rotation |-> FALSE]
          [] t = "MM120_6X45" ->
               [type |-> "MM120_6X45", aspect_ratio |-> <<9, 12>>,
                images_per_row |-> 3,
                max_images |-> 16, orientation |-> "portrait",
                force_rotation |-> TRUE]
          [] t = "MM120_6X7" ->
               [type |-> "MM120_6X7", aspect_ratio |-> <<7, 6>>,
                images_per_row |-> 3,
                max_images |-> 10, orientation |-> "landscape",
                force_rotation |-> TRUE]
          [] t = "MM120_6X8" ->
               [type |-> "MM120_6X8", aspect_ratio |-> <<8, 6>>,
                images_per_row |-> 3,
                max_images |-> 9, orientation |-> "landscape",
                force_rotation |-> TRUE]
          [] t = "MM120_6X9" ->
               [type |-> "MM120_6X9", aspect_ratio |-> <<9, 6>>,
                images_per_row |-> 3,
                max_images |-> 8, orientation |-> "landscape",
                force_rotation |-> TRUE]
          [] t = "MM127_4X4" ->
               [type |-> "MM127_4X4", aspect_ratio |-> <<1, 1>>,
                images_per_row |-> 3,
                max_images |-> 12, orientation |-> "square",
                force_rotation |-> FALSE]]

\* a slip: the lookup ignores its argument
get_film_format_First(film_type) == catalog["MM35_FULL"]

\* return FILM_FORMATS[film_type]
get_film_format(film_type) == catalog[film_type]

(***************************************************************************)
(* ContactSheet: class constants and __init__                              *)
(***************************************************************************)
DPI == 300

A4_WIDTH_MM == 210

A4_HEIGHT_MM == 297

\* ASPECT_RATIO = (4, 5), width : height
ASPECT_RATIO == <<4, 5>>

\* a change of rounding: round-half-up instead of int()
MmToPx_Rounded(mm) == (2 * mm * DPI * 10 + 254) \div (2 * 254)

\* int(mm * DPI / 25.4), as every physical constant is converted
MmToPx(mm) == PyInt(mm * DPI * 10, 254)

\* ContactSheet.__init__: the pixel attributes set on self.  restored sets
\* base_width, margin, info_height and image_info_gap; r171305 sets
\* unified_gap too; r165728 sets a4_width and a4_height instead of base_width
ContactSheetFields ==
    [base_width     |-> MmToPx(A4_WIDTH_MM),
     a4_width       |-> MmToPx(A4_WIDTH_MM),
     a4_height      |-> MmToPx(A4_HEIGHT_MM),
     margin         |-> MmToPx(10),
     info_height    |-> MmToPx(35),
     image_info_gap |-> MmToPx(8),
     unified_gap    |-> MmToPx(6)]

\* self.base_width (restored, r171305)
base_width == fields.base_width

\* self.a4_width (r165728)
a4_width == fields.a4_width

a4_height == fields.a4_height

margin == fields.margin

info_height == fields.info_height

image_info_gap == fields.image_info_gap

unified_gap == fields.unified_gap

\* the fixed pixel gap between neighbouring cells
CellGap == 10

\* min_thumb_size = int(30 * self.DPI / 25.4), a local of _calculate_layout
min_thumb_size == MmToPx(30)

\* the layout dict before _calculate_layout has run
NoLayout == [thumb_width |-> 0, thumb_height |-> 0, rows_needed |-> 0,
             images_per_row |-> 0, content_width |-> 0, content_height |-> 0]

(***************************************************************************)
(* ContactSheet._calculate_layout                                          *)
(***************************************************************************)
\* a slip: "< 3" instead of "<= 3" in the per-format adjustment
BaseWidthFor_StrictLess(r, images_per_row) ==
    IF r = "r165728" THEN a4_width
    ELSE IF images_per_row < 3 THEN PyInt(base_width * 12, 10)
    ELSE base_width

\* the page-width basis: int(base_width) after the per-format adjustment
\* (self.base_width * 1.2 for images_per_row <= 3); r165728 always uses
\* self.a4_width
BaseWidthFor(r, images_per_row) ==
    IF r = "r165728" THEN a4_width
    ELSE IF images_per_row <= 3 THEN PyInt(base_width * 12, 10)
    ELSE base_width

\* available_width
AvailableWidth(r, images_per_row) ==
    BaseWidthFor(r, images_per_row) - (2 * margin)

\* thumb_width
ThumbWidth(r, images_per_row) ==
    IF r = "r165728"
    THEN (AvailableWidth(r, images_per_row) \div images_per_row) - 10
    ELSE LET image_gaps == Max(0, images_per_row - 1) * CellGap
             thumb_width ==
                 (AvailableWidth(r, images_per_row) - image_gaps)
                     \div images_per_row
         IN  Max(thumb_width, min_thumb_size)

\* a change of rounding: round-half-up instead of int()
ThumbHeight_Rounded(thumb_width, aspect_ratio) ==
    (2 * thumb_width * aspect_ratio[2] + aspect_ratio[1])
        \div (2 * aspect_ratio[1])

\* a slip: aspect_w and aspect_h swapped
ThumbHeight_Swapped(thumb_width, aspect_ratio) ==
    PyInt(thumb_width * aspect_ratio[1], aspect_ratio[2])

\* thumb_height = int(thumb_width * aspect_h / aspect_w)
ThumbHeight(thumb_width, aspect_ratio) ==
    PyInt(thumb_width * aspect_ratio[2], aspect_ratio[1])

\* a slip: floor division instead of the rounding-up form
RowsNeeded_Floor(n, images_per_row) == n \div images_per_row

\* rows_needed = (num_images + images_per_row - 1) // images_per_row
RowsNeeded(n, images_per_row) ==
    (n + images_per_row - 1) \div images_per_row

\* content_height = rows_needed * thumb_height + (rows_needed - 1) * 10
ContentHeight(rows_needed, thumb_height) ==
    rows_needed * thumb_height + (rows_needed - 1) * CellGap

\* content_width = images_per_row * thumb_width + (images_per_row - 1) * 10
ContentWidth(images_per_row, thumb_width) ==
    images_per_row * thumb_width + (images_per_row - 1) * CellGap

\* a slip: content_height counts the images instead of the rows
calculate_layout_PerImage(r, n, fmt) ==
    LET images_per_row == fmt.images_per_row
        thumb_width    == ThumbWidth(r, images_per_row)
        thumb_height   == ThumbHeight(thumb_width, fmt.aspect_ratio)
        rows_needed    == RowsNeeded(n, images_per_row)
        content_width  == ContentWidth(images_per_row, thumb_width)
        content_height == ContentHeight(n, thumb_height)
    IN  IF r = "r165728"
        THEN [thumb_width    |-> thumb_width,
              thumb_height   |-> thumb_height,
              rows_needed    |-> rows_needed,
              images_per_row |-> images_per_row,
              content_width  |-> content_width,
              content_height |-> content_height]
        ELSE [thumb_width    |-> thumb_width,
              thumb_height   |-> thumb_height,
              rows_needed    |-> rows_needed,
              images_per_row |-> images_per_row,
              content_width  |-> content_width,
              content_height |-> content_height,
              base_width     |-> BaseWidthFor(r, images_per_row)]

\* the returned dict; r165728 has no 'base_width' entry
calculate_layout(r, n, fmt) ==
    LET images_per_row == fmt.images_per_row
        thumb_width    == ThumbWidth(r, images_per_row)
        thumb_height   == ThumbHeight(thumb_width, fmt.aspect_ratio)
        rows_needed    == RowsNeeded(n, images_per_row)
        content_width  == ContentWidth(images_per_row, thumb_width)
        content_height == ContentHeight(rows_needed, thumb_height)
    IN  IF r = "r165728"
        THEN [thumb_width    |-> thumb_width,
              thumb_height   |-> thumb_height,
              rows_needed    |-> rows_needed,
              images_per_row |-> images_per_row,
              content_width  |-> content_width,
              content_height |-> content_height]
        ELSE [thumb_width    |-> thumb_width,
              thumb_height   |-> thumb_height,
              rows_needed    |-> rows_needed,
              images_per_row |-> images_per_row,
              content_width  |-> content_width,
              content_height |-> content_height,
              base_width     |-> BaseWidthFor(r, images_per_row)]

(***************************************************************************)
(* ContactSheet._calculate_optimal_size                                    *)
(***************************************************************************)
\* a slip: the gap between images and footer left out of min_height
MinHeight_NoGap(r, layout) ==
    2 * margin + layout.content_height + info_height

\* min_height: r171305 adds two unified gaps and the 2px line width, the
\* other revisions one image_info_gap
MinHeight(r, layout) ==
    IF r = "r171305"
    THEN 2 * margin + layout.content_height + unified_gap + 2
             + unified_gap + info_height
    ELSE 2 * margin + layout.content_height + image_info_gap + info_height

\* min_width
MinWidth(layout) == layout.content_width + 2 * margin

\* height_from_width = int(min_width * 5 / 4)
HeightFromWidth(w) == PyInt(w * ASPECT_RATIO[2], ASPECT_RATIO[1])

\* width_from_height = int(min_height * 4 / 5)
WidthFromHeight(h) == PyInt(h * ASPECT_RATIO[1], ASPECT_RATIO[2])

\* restored and r171305: the condition of the width-driven branch,
\* "if height_from_width >= min_height and min_width <= width_from_height"
WidthDriven(min_width, min_height) ==
    /\ HeightFromWidth(min_width) >= min_height
    /\ min_width <= WidthFromHeight(min_height)

\* a slip: the height-driven branch keeps min_width instead of deriving the
\* width from the height
TieBreak_KeepsMinWidth(min_width, min_height) ==
    LET height_from_width == HeightFromWidth(min_width)
        width_from_height == WidthFromHeight(min_height)
    IN  IF WidthDriven(min_width, min_height)
        THEN LET final_width == Max(min_width, width_from_height)
             IN  <<final_width, HeightFromWidth(final_width)>>
        ELSE <<min_width, Max(min_height, height_from_width)>>

\* restored and r171305: the tie-break, first "if"
TieBreak(min_width, min_height) ==
    LET height_from_width == HeightFromWidth(min_width)
        width_from_height == WidthFromHeight(min_height)
    IN  IF WidthDriven(min_width, min_height)
        THEN LET final_width == Max(min_width, width_from_height)
             IN  <<final_width, HeightFromWidth(final_width)>>
        ELSE LET final_height == Max(min_height, height_from_width)
             IN  <<WidthFromHeight(final_height), final_height>>

\* restored and r171305: "if final_height < min_height"
PostCheckHeight(size, min_height) ==
    IF size[2] < min_height
    THEN <<WidthFromHeight(min_height), min_height>>
    ELSE size

\* a slip: the width post-check left out
PostCheckWidth_Missing(size, min_width) == size

\* restored and r171305: "if final_width < min_width"
PostCheckWidth(size, min_width) ==
    IF size[1] < min_width
    THEN <<min_width, HeightFromWidth(min_width)>>
    ELSE size

\* a slip: ">" for ">="
SimpleTieBreak_Strict(min_width, min_height) ==
    LET height_from_width == HeightFromWidth(min_width)
        width_from_height == WidthFromHeight(min_height)
    IN  IF height_from_width > min_height
        THEN <<min_width, height_from_width>>
        ELSE <<width_from_height, min_height>>

\* r165728: the simple tie-break
SimpleTieBreak(min_width, min_height) ==
    LET height_from_width == HeightFromWidth(min_width)
        width_from_height == WidthFromHeight(min_height)
    IN  IF height_from_width >= min_height
        THEN <<min_width, height_from_width>>
        ELSE <<width_from_height, min_height>>

\* r165728: "if final_width > self.a4_width or final_height > self.a4_height"
ExceedsA4(size) == size[1] > a4_width \/ size[2] > a4_height

\* a slip: only the height is limited, the width is left as computed
ClampToA4_HeightOnly(size) ==
    IF ExceedsA4(size)
    THEN <<size[1], IF size[2] > a4_height THEN a4_height ELSE size[2]>>
    ELSE size

\* r165728: the A4 limit
ClampToA4(size) ==
    IF ExceedsA4(size)
    THEN LET a4_height_for_ratio == HeightFromWidth(a4_width)
         IN  IF a4_height_for_ratio <= a4_height
             THEN <<a4_width, a4_height_for_ratio>>
             ELSE <<WidthFromHeight(a4_height), a4_height>>
    ELSE size

calculate_optimal_size(r, layout) ==
    LET min_height == MinHeight(r, layout)
        min_width  == MinWidth(layout)
    IN  IF r = "r165728"
        THEN ClampToA4(SimpleTieBreak(min_width, min_height))
        ELSE PostCheckWidth(
                 PostCheckHeight(TieBreak(min_width, min_height), min_height),
                 min_width)

\* whether the maximum-page clamp engaged for this layout (only r165728 has
\* one)
ClampEngaged(r, layout) ==
    /\ r = "r165728"
    /\ ExceedsA4(SimpleTieBreak(MinWidth(layout), MinHeight(r, layout)))

(***************************************************************************)
(* ContactSheet._place_images and _add_info_section                        *)
(***************************************************************************)
\* the (img, number) list ImageProcessor.process_images hands over: the
\* image at 1-based position idx carries the number idx
processed_images(n) == [idx \in 1..n |-> idx]

\* start_x = (sheet_width - content_width) // 2
StartX(width, layout) == (width - layout.content_width) \div 2

\* a slip: the inter-cell gap left out of the column step
CellX_NoGap(width, layout, col) ==
    StartX(width, layout) + col * layout.thumb_width

\* x = start_x + current_col * (thumb_width + 10)
CellX(width, layout, col) ==
    StartX(width, layout) + col * (layout.thumb_width + CellGap)

\* y = self.margin + current_row * (thumb_height + 10)
CellY(layout, row) == margin + row * (layout.thumb_height + CellGap)

\* a slip: ">" instead of ">=" in the wrap test
NextCol_OffByOne(col, images_per_row) ==
    IF col + 1 > images_per_row THEN 0 ELSE col + 1

\* current_col += 1; if current_col >= images_per_row: wrap to the next row
NextCol(col, images_per_row) ==
    IF col + 1 >= images_per_row THEN 0 ELSE col + 1

NextRow(row, col, images_per_row) ==
    IF col + 1 >= images_per_row THEN row + 1 ELSE row

\* a slip: the margin is not subtracted
LineY_NoMargin(height) == height - info_height

\* line_y = info_area_start = sheet_height - self.margin - self.info_height
LineY(height) == height - margin - info_height

NoLine == [x0 |-> 0, x1 |-> 0, y |-> 0]

\* info.get(key) is truthy: the key is present and its value is not ''
Has(inf, key) == key \in DOMAIN inf /\ inf[key] # ""

\* the prefix of the f-string of each field
Label(key) ==
    CASE key = "date"      -> "Date: "
      [] key = "location"  -> "Location: "
      [] key = "developer" -> "Developer: "
      [] key = "camera"    -> "Camera: "
      [] key = "lens"      -> "Lens: "
      [] key = "film"      -> "Film: "

\* the order of the "if info.get(...)" statements of each column
LeftKeys == <<"date", "location", "developer">>

RightKeys == <<"camera", "lens">>

\* the keys whose item is appended to left_items / right_items, in order
PresentKeys(inf, keys) ==
    LET Present(key) == Has(inf, key)
    IN  SelectSeq(keys, Present)

\* left_items / right_items
Items(inf, keys) ==
    LET present == PresentKeys(inf, keys)
    IN  [i \in 1..Len(present) |->
            [key |-> present[i], text |-> Label(present[i]) \o inf[present[i]]]]

\* font sizes: int(14 * DPI / 72) regular, int(16 * DPI / 72) bold
FontSize(bold) == IF bold THEN PyInt(16 * DPI, 72) ELSE PyInt(14 * DPI, 72)

\* bbox[2] - bbox[0] of draw.textbbox((0, 0), text, font): the glyph advance
\* of the font times the number of characters (half the size for Helvetica,
\* 6 pixels for the bitmap font of load_default, where font_bold = font)
TextWidth(text, font, bold) ==
    Len(text) * (IF font = "helvetica" THEN FontSize(bold) \div 2 ELSE 6)

\* a slip: the first row starts on the separator line
YOffset_OnLine(r, line_y) == line_y

\* y_offset = line_y + 15, or line_y + self.unified_gap in r171305
YOffset(r, line_y) ==
    IF r = "r171305" THEN line_y + unified_gap ELSE line_y + 15

\* line_height = int(18 * self.DPI / 72)
line_height == PyInt(18 * DPI, 72)

\* a slip: rows counted from 1
RowY_OffByOne(y_offset, i) == y_offset + (i + 1) * line_height

\* y_offset + i * line_height, the y of the item with 0-based index i
RowY(y_offset, i) == y_offset + i * line_height

\* x of a left item: self.margin, or centred in the left half in r171305
LeftX(r, width, text_width) ==
    IF r = "r171305"
    THEN LET info_content_width == width - 2 * margin
             left_area_width == info_content_width \div 2
         IN  margin + (left_area_width - text_width) \div 2
    ELSE margin

\* x of a right item: right_x = sheet_width // 2, or centred in the right
\* half in r171305
RightX(r, width, text_width) ==
    IF r = "r171305"
    THEN LET info_content_width == width - 2 * margin
             left_area_width == info_content_width \div 2
             right_area_start == margin + left_area_width
         IN  right_area_start + (left_area_width - text_width) \div 2
    ELSE width \div 2

\* the distance of the film line from the last row: int(8 * self.DPI / 72),
\* or self.unified_gap in r171305
FilmGap(r) == IF r = "r171305" THEN unified_gap ELSE PyInt(8 * DPI, 72)

\* film_y = y_offset + max(len(left_items), len(right_items)) * line_height
\*          + gap
FilmY(r, y_offset, left_items, right_items) ==
    y_offset + Max(Len(left_items), Len(right_items)) * line_height
        + FilmGap(r)

\* a slip: the check that the film line fits is dropped
FilmFits_Always(r, film_y, height) == TRUE

\* "if film_y + int(20 * self.DPI / 72) <= sheet_height - self.margin";
\* r165728 draws the film line without this check
FilmFits(r, film_y, height) ==
    IF r = "r165728"
    THEN TRUE
    ELSE film_y + PyInt(20 * DPI, 72) <= height - margin

\* the draw.text calls of one column
ColumnTexts(r, column, items, width, y_offset, font) ==
    [i \in 1..Len(items) |->
        LET text_width == TextWidth(items[i].text, font, FALSE)
        IN  [column |-> column,
             key    |-> items[i].key,
             text   |-> items[i].text,
             w      |-> text_width,
             x      |-> IF column = "left"
                        THEN LeftX(r, width, text_width)
                        ELSE RightX(r, width, text_width),
             y      |-> RowY(y_offset, i - 1)]]

\* the draw.text call of the film line, if it is made
FilmTexts(r, inf, width, height, y_offset, font) ==
    IF Has(inf, "film")
    THEN LET film_text == Label("film") \o inf["film"]
             text_width == TextWidth(film_text, font, TRUE)
             film_y == FilmY(r, y_offset, Items(inf, LeftKeys),
                             Items(inf, RightKeys))
         IN  IF FilmFits(r, film_y, height)
             THEN <<[column |-> "film",
                     key    |-> "film",
                     text   |-> film_text,
                     w      |-> text_width,
                     x      |-> (width - text_width) \div 2,
                     y      |-> film_y]>>
             ELSE <<>>
    ELSE <<>>

\* every draw.text call of _add_info_section, in the order they are made
add_info_section(r, inf, width, height, font) ==
    LET y_offset == YOffset(r, LineY(height))
    IN  ColumnTexts(r, "left", Items(inf, LeftKeys), width, y_offset, font)
        \o ColumnTexts(r, "right", Items(inf, RightKeys), width, y_offset,
                       font)
        \o FilmTexts(r, inf, width, height, y_offset, font)

(***************************************************************************)
(* ImageProcessor (core/image_processor.py) and the files it is given.     *)
(* A file is [dir, stem, ext, image]: its name is stem then ext, and image *)
(* tells whether Image.open can read it.                                   *)
(***************************************************************************)
Files ==
    {[dir |-> "roll1", stem |-> 2, ext |-> ".jpg", image |-> TRUE],
     [dir |-> "roll2", stem |-> 2, ext |-> ".jpg", image |-> TRUE],
     [dir |-> "roll1", stem |-> 1, ext |-> ".JPG", image |-> TRUE],
     [dir |-> "roll1", stem |-> 1, ext |-> ".txt", image |-> TRUE],
     [dir |-> "roll1", stem |-> 3, ext |-> ".jpg", image |-> FALSE]}

\* str.lower() on the suffixes in use
Lower(ext) ==
    CASE ext = ".JPG" -> ".jpg"
      [] ext = ".PNG" -> ".png"
      [] OTHER        -> ext

\* _is_valid_image: Path(file_path).suffix.lower() in valid_extensions
is_valid_image(file) ==
    Lower(file.ext) \in {".jpg", ".jpeg", ".png", ".tiff", ".tif", ".bmp"}

\* the order of the suffixes as strings ('J' < 'j' < 't')
ExtRank(ext) ==
    CASE ext = ".JPG" -> 1
      [] ext = ".PNG" -> 2
      [] ext = ".jpg" -> 3
      [] ext = ".png" -> 4
      [] OTHER        -> 5

\* the sort key x.name: names compare by stem, then by suffix
NameKey(file) == file.stem * 10 + ExtRank(file.ext)

\* list.sort is stable: an element goes behind the elements whose key is
\* not greater
RECURSIVE InsertByName(_, _)
InsertByName(sorted, file) ==
    IF sorted = <<>> THEN <<file>>
    ELSE IF NameKey(sorted[Len(sorted)]) <= NameKey(file)
         THEN Append(sorted, file)
         ELSE Append(InsertByName(SubSeq(sorted, 1, Len(sorted) - 1), file),
                     sorted[Len(sorted)])

RECURSIVE SortByName(_)
SortByName(files) ==
    IF files = <<>> THEN <<>>
    ELSE InsertByName(SortByName(SubSeq(files, 1, Len(files) - 1)),
                      files[Len(files)])

\* a slip: the list is left in the order it was given
load_images_Unsorted(paths) == SelectSeq(paths, is_valid_image)

\* load_images: keep the valid files, sort them by name
load_images(paths) == SortByName(SelectSeq(paths, is_valid_image))

\* a slip: enumerate(self.images) without the start of 1
process_images_FromZero(imgs) ==
    [raised    |-> \E k \in 1..Len(imgs) : ~imgs[k].image,
     processed |-> [k \in 1..Len(imgs) |->
                       [image |-> imgs[k], number |-> k - 1]]]

\* process_images: (img, idx) for idx, img_path in enumerate(self.images, 1);
\* Image.open raises at the first file it cannot read, with the tuples
\* appended so far left in self.processed_images
process_images(imgs) ==
    LET unreadable == {k \in 1..Len(imgs) : ~imgs[k].image}
        stop == IF unreadable = {}
                THEN Len(imgs)
                ELSE (CHOOSE k \in unreadable :
                          \A j \in unreadable : k <= j) - 1
    IN  [raised    |-> unreadable # {},
         processed |-> [k \in 1..stop |->
                           [image |-> imgs[k], number |-> k]]]

\* a slip: img.rotate(90) without expand=True keeps the size of the image
Rotate90Expand_NoExpand(size) == size

\* img.rotate(90, expand=True) of an image of size (width, height): a
\* quarter turn, which PIL makes as a transpose
Rotate90Expand(size) == <<size[2], size[1]>>

\* the conditions of the two rotating branches of _rotate_image_if_needed
RotationNeeded(size, target_orientation) ==
    LET width        == size[1]
        height       == size[2]
        is_landscape == width > height
        is_portrait  == height > width
    IN  \/ target_orientation = "landscape" /\ is_portrait
        \/ target_orientation = "portrait" /\ is_landscape

\* _rotate_image_if_needed, on the size of the image
rotate_image_if_needed(size, target_orientation) ==
    IF RotationNeeded(size, target_orientation)
    THEN Rotate90Expand(size)
    ELSE size

\* the body of the loop of process_images: "if film_format.force_rotation"
RotateForFormat(size, fmt) ==
    IF fmt.force_rotation
    THEN rotate_image_if_needed(size, fmt.orientation)
    ELSE size

(***************************************************************************)
(* MainWindow (ui/main_window.py).                                         *)
(***************************************************************************)
\* self.current_sheet = None
NoSheet == [width |-> 0, height |-> 0, numbers |-> <<>>,
            film_format |-> "None", info |-> [k \in {} |-> ""]]

\* the keys of MainWindow.info_fields
InfoFields == {"date", "location", "camera", "lens", "film"}

\* no indicator is shown: the styles of the list, of the combo box and of
\* the fields are the initial ones
NoMarks == [image_list |-> FALSE, format_combo |-> FALSE, info_fields |-> {}]

\* export_sheet has invoked no save operation
NoSave == [op |-> "None", sheets |-> <<>>, file_path |-> ""]

\* currentData() of a combo box without a current item
NoItem == "None"

\* get_film_format raises KeyError: FILM_FORMATS[film_type] has no such key
get_film_format_raises(film_type) == film_type \notin DOMAIN catalog

\* a slip: the images are processed before the format is looked up
update_preview_ProcessFirst(imgs, film_type, proc) ==
    LET result == process_images(imgs)
    IN  IF result.raised
        THEN [ok |-> FALSE, message |-> "critical:cannot identify image file",
              processed |-> result.processed]
        ELSE IF get_film_format_raises(film_type)
             THEN [ok |-> FALSE, message |-> "critical:KeyError",
                   processed |-> result.processed]
             ELSE [ok |-> TRUE, message |-> "none",
                   processed |-> result.processed]

\* the try block of update_preview up to the call of create_sheet: the
\* format is looked up, then the images are processed; an exception ends in
\* QMessageBox.critical
update_preview(imgs, film_type, proc) ==
    IF get_film_format_raises(film_type)
    THEN [ok |-> FALSE, message |-> "critical:KeyError", processed |-> proc]
    ELSE LET result == process_images(imgs)
         IN  IF result.raised
             THEN [ok |-> FALSE,
                   message |-> "critical:cannot identify image file",
                   processed |-> result.processed]
             ELSE [ok |-> TRUE, message |-> "none",
                   processed |-> result.processed]

(***************************************************************************)
(* The state machine: one create_sheet call after another.                 *)
(***************************************************************************)
\* no image has been handled on its own
NoRotation == [size |-> <<0, 0>>, film_type |-> "None", rotated |-> FALSE,
               once |-> <<0, 0>>, twice |-> <<0, 0>>]

\* no tie-break has been evaluated on its own
NoTie == [min_width |-> 0, min_height |-> 0, width_driven |-> FALSE,
          later |-> <<0, 0>>, simple |-> <<0, 0>>]

\* no create_sheet call has been recorded
NoCall == [film_format |-> "None", num_images |-> 0, layout_info |-> NoLayout,
           width |-> 0, height |-> 0]

Init ==
    /\ rotation = NoRotation
    /\ catalog = FILM_FORMATS
    /\ fields = ContactSheetFields
    /\ earlier = NoCall
    /\ tie = NoTie
    /\ rev \in Revisions
    /\ pc = "idle"
    /\ film_format = "MM35_FULL"
    /\ num_images = 0
    /\ layout_info = NoLayout
    /\ sheet_width = 0
    /\ sheet_height = 0
    /\ current_row = 0
    /\ current_col = 0
    /\ pasted = <<>>
    /\ line = NoLine
    /\ info = [k \in {} |-> ""]
    /\ texts = <<>>
    /\ pdf_pc = "idle"
    /\ pdf_sheets = <<>>
    /\ pdf_pages = <<>>
    /\ numbers = <<>>
    /\ file_paths = <<>>
    /\ images = <<>>
    /\ processed = <<>>
    /\ format_combo = "MM35_FULL"
    /\ current_sheet = NoSheet
    /\ has_unsaved_changes = FALSE
    /\ message = "none"
    /\ gui_pc = "idle"
    /\ info_text = [k \in InfoFields |-> ""]
    /\ marked = NoMarks
    /\ export_format = "JPEG"
    /\ reply = "none"
    /\ save_call = NoSave

\* create_sheet is entered with a format, the processed images (img, number)
\* and an info dict
EnterCreateSheet(ft, nums, inf) ==
    /\ pc' = "calculate_layout"
    /\ film_format' = ft
    /\ numbers' = nums
    /\ num_images' = Len(nums)
    /\ layout_info' = NoLayout
    /\ sheet_width' = 0
    /\ sheet_height' = 0
    /\ current_row' = 0
    /\ current_col' = 0
    /\ pasted' = <<>>
    /\ line' = NoLine
    /\ info' = inf
    /\ texts' = <<>>

\* create_sheet is called with a format, the list process_images returns for
\* n images and an info dict
CreateSheet(ft, n, inf) ==
    /\ pc \in {"idle", "done"}
    /\ EnterCreateSheet(ft, processed_images(n), inf)
    /\ UNCHANGED <<instVars, rev, pdfVars, sessionVars>>

\* a slip: _calculate_layout stores the widened base width on self
CalculateLayout_WidensField ==
    /\ pc = "calculate_layout"
    /\ LET wide ==
               BaseWidthFor(rev,
                            get_film_format(film_format).images_per_row)
       IN  fields' = [fields EXCEPT !.base_width = wide]
    /\ layout_info' =
           calculate_layout(rev, num_images, get_film_format(film_format))
    /\ pc' = "calculate_optimal_size"
    /\ UNCHANGED <<rev, film_format, num_images, sheet_width, sheet_height,
                   current_row, current_col, pasted, line, info, texts>>
    /\ UNCHANGED <<earlier, tie, catalog, rotation, pdfVars, numbers,
                   sessionVars>>

\* layout_info = self._calculate_layout(processed_images, film_format)
CalculateLayout ==
    /\ pc = "calculate_layout"
    /\ layout_info' =
           calculate_layout(rev, num_images, get_film_format(film_format))
    /\ pc' = "calculate_optimal_size"
    /\ UNCHANGED <<rev, film_format, num_images, sheet_width, sheet_height,
                   current_row, current_col, pasted, line, info, texts>>
    /\ UNCHANGED <<instVars, pdfVars, numbers, sessionVars>>

\* sheet_width, sheet_height = self._calculate_optimal_size(layout_info);
\* the white canvas of that size is created and _place_images is entered
CalculateOptimalSize ==
    /\ pc = "calculate_optimal_size"
    /\ LET size == calculate_optimal_size(rev, layout_info)
       IN  /\ sheet_width' = size[1]
           /\ sheet_height' = size[2]
    /\ current_row' = 0
    /\ current_col' = 0
    /\ pc' = "place_images"
    /\ UNCHANGED <<rev, film_format, num_images, layout_info, pasted, line,
                   info, texts>>
    /\ UNCHANGED <<instVars, pdfVars, numbers, sessionVars>>

\* one iteration of "for img, number in processed_images"
PlaceImage ==
    /\ pc = "place_images"
    /\ Len(pasted) < num_images
    /\ LET number == numbers[Len(pasted) + 1]
           x == CellX(sheet_width, layout_info, current_col)
           y == CellY(layout_info, current_row)
       IN  pasted' = Append(pasted,
                            [x |-> x, y |-> y,
                             w |-> layout_info.thumb_width,
                             h |-> layout_info.thumb_height,
                             number |-> number])
    /\ current_col' = NextCol(current_col, layout_info.images_per_row)
    /\ current_row' = NextRow(current_row, current_col,
                              layout_info.images_per_row)
    /\ UNCHANGED <<rev, pc, film_format, num_images, layout_info,
                   sheet_width, sheet_height, line, info, texts>>
    /\ UNCHANGED <<instVars, pdfVars, numbers, sessionVars>>

\* the loop of _place_images is exhausted
PlaceImagesReturn ==
    /\ pc = "place_images"
    /\ Len(pasted) = num_images
    /\ pc' = "add_info_section"
    /\ UNCHANGED <<rev, film_format, num_images, layout_info, sheet_width,
                   sheet_height, current_row, current_col, pasted, line,
                   info, texts>>
    /\ UNCHANGED <<instVars, pdfVars, numbers, sessionVars>>

\* _add_info_section loads the fonts, draws the separator line and the
\* text rows; create_sheet returns
AddInfoSection(font) ==
    /\ pc = "add_info_section"
    /\ line' = [x0 |-> margin, x1 |-> sheet_width - margin,
                y |-> LineY(sheet_height)]
    /\ texts' = add_info_section(rev, info, sheet_width, sheet_height, font)
    /\ pc' = "done"
    /\ UNCHANGED <<rev, film_format, num_images, layout_info, sheet_width,
                   sheet_height, current_row, current_col, pasted, info>>
    /\ UNCHANGED <<instVars, pdfVars, numbers, sessionVars>>

Next ==
    \/ \E ft \in FilmType, n \in ImageCounts, inf \in InfoSamples :
           CreateSheet(ft, n, inf)
    \/ CalculateLayout
    \/ CalculateOptimalSize
    \/ PlaceImage
    \/ PlaceImagesReturn
    \/ \E font \in Fonts : AddInfoSection(font)

Spec == Init /\ [][Next]_vars

(***************************************************************************)
(* Repeated renders by one ContactSheet instance: each call may be         *)
(* recorded, to be compared with a later one.                              *)
(***************************************************************************)
\* the repeated renders place 0..MaxRepeatImages images
MaxRepeatImages == 7

\* 10 images need a fourth row of the 120 formats, 13 images a second and
\* a third row of the 35mm formats
RepeatCounts == (0..MaxRepeatImages) \cup {10, 13}

\* what the create_sheet call that has just returned computed
ThisCall ==
    [film_format |-> film_format, num_images |-> num_images,
     layout_info |-> layout_info, width |-> sheet_width,
     height |-> sheet_height]

\* create_sheet is called again on the same instance; the call that has
\* returned is recorded unless an earlier record is kept
CreateSheetAfter(ft, n, inf, keep) ==
    /\ pc \in {"idle", "done"}
    /\ EnterCreateSheet(ft, processed_images(n), inf)
    /\ earlier' = IF pc = "done" /\ ~keep THEN ThisCall ELSE earlier
    /\ UNCHANGED <<fields, tie, catalog, rotation, rev, pdfVars,
                   sessionVars>>

NextRepeat ==
    \/ \E ft \in FilmType, n \in RepeatCounts, keep \in BOOLEAN :
           CreateSheetAfter(ft, n, [k \in {} |-> ""], keep)
    \/ CalculateLayout
    \/ CalculateOptimalSize
    \/ PlaceImage
    \/ PlaceImagesReturn
    \/ AddInfoSection("helvetica")

SpecRepeat == Init /\ [][NextRepeat]_vars

(***************************************************************************)
(* The canvas-size tie-break on its own: both forms are evaluated for a    *)
(* pair (min_width, min_height).                                           *)
(***************************************************************************)
\* every pair of 1..MaxSide is evaluated
MaxSide == 30

\* the pairs of small sides, and the pairs the layouts of the catalog give
TiePairs ==
    ((1..MaxSide) \X (1..MaxSide))
        \cup {<<MinWidth(calculate_layout(r, n, get_film_format(ft))),
                MinHeight(r, calculate_layout(r, n, get_film_format(ft)))>> :
                  r \in {"restored", "r171305"}, ft \in FilmType,
                  n \in 1..MaxImages}

\* the tie-break with post-checks (restored, r171305) and the simple
\* tie-break (r165728, before its A4 limit) of one pair
OptimalSizeOf(min_width, min_height) ==
    /\ tie' = [min_width    |-> min_width,
               min_height   |-> min_height,
               width_driven |-> WidthDriven(min_width, min_height),
               later        |-> PostCheckWidth(
                                    PostCheckHeight(
                                        TieBreak(min_width, min_height),
                                        min_height),
                                    min_width),
               simple       |-> SimpleTieBreak(min_width, min_height)]
    /\ UNCHANGED <<fields, earlier, catalog, rotation, rev, sheetVars,
                   pdfVars, sessionVars>>

NextTieBreak == \E p \in TiePairs : OptimalSizeOf(p[1], p[2])

\* the tie-break does not depend on the installed revision
InitTieBreak == Init /\ rev = "restored"

SpecTieBreak == InitTieBreak /\ [][NextTieBreak]_vars

(***************************************************************************)
(* The rotation of process_images on its own: an image of a size is        *)
(* handled for a format, and what came out is handled again.               *)
(***************************************************************************)
\* the images are 1..MaxPixels wide and high
MaxPixels == 6

ImageSizes == (1..MaxPixels) \X (1..MaxPixels)

ProcessOneImage(size, ft) ==
    LET fmt  == get_film_format(ft)
        once == RotateForFormat(size, fmt)
    IN  /\ rotation' =
               [size      |-> size,
                film_type |-> ft,
                rotated   |-> /\ fmt.force_rotation
                              /\ RotationNeeded(size, fmt.orientation),
                once      |-> once,
                twice     |-> RotateForFormat(once, fmt)]
        /\ UNCHANGED <<fields, earlier, tie, catalog, rev, sheetVars,
                       pdfVars, sessionVars>>

NextRotate ==
    \E size \in ImageSizes, ft \in FilmType : ProcessOneImage(size, ft)

SpecRotate == Init /\ [][NextRotate]_vars

(***************************************************************************)
(* The footer: one create_sheet call, of one image of a few formats, made  *)
(* with every info dict.                                                   *)
(***************************************************************************)
FooterFormats == {"MM35_FULL", "MM35_HALF", "MM120_6X7"}

\* the footer renders place 1..MaxFooterImages images
MaxFooterImages == 1

FooterCounts == 1..MaxFooterImages

NextFooter ==
    \/ \E ft \in FooterFormats, n \in FooterCounts, inf \in InfoDicts :
           pc = "idle" /\ CreateSheet(ft, n, inf)
    \/ CalculateLayout
    \/ CalculateOptimalSize
    \/ PlaceImage
    \/ PlaceImagesReturn
    \/ \E font \in Fonts : AddInfoSection(font)

SpecFooter == Init /\ [][NextFooter]_vars

(***************************************************************************)
(* save_as_pdf.  Lengths are exact fractions [n, d] of a point, kept in    *)
(* lowest terms; the rounding of the floating-point operations is not      *)
(* modelled.                                                               *)
(***************************************************************************)
RECURSIVE GCD(_, _)
GCD(a, b) == IF b = 0 THEN a ELSE GCD(b, a % b)

\* n / d in lowest terms, d > 0
Frac(n, d) ==
    LET g == GCD(IF n >= 0 THEN n ELSE -n, d)
    IN  [n |-> n \div g, d |-> d \div g]

\* a * b, cancelling across before multiplying
FMul(a, b) ==
    LET g1 == GCD(IF a.n >= 0 THEN a.n ELSE -a.n, b.d)
        g2 == GCD(IF b.n >= 0 THEN b.n ELSE -b.n, a.d)
    IN  Frac((a.n \div g1) * (b.n \div g2), (a.d \div g2) * (b.d \div g1))

\* a / b, b > 0
FDiv(a, b) == FMul(a, [n |-> b.d, d |-> b.n])

\* the least common multiple of the denominators
FLcm(a, b) == (a.d \div GCD(a.d, b.d)) * b.d

\* a - b
FSub(a, b) ==
    LET l == FLcm(a, b)
    IN  Frac(a.n * (l \div a.d) - b.n * (l \div b.d), l)

\* a <= b for a, b > 0, cancelling across before multiplying
FLeq(a, b) ==
    LET g == GCD(a.n, b.n)
        k == GCD(a.d, b.d)
    IN  (a.n \div g) * (b.d \div k) <= (b.n \div g) * (a.d \div k)

\* min(a, b)
FMin(a, b) == IF FLeq(a, b) THEN a ELSE b

\* reportlab.lib.pagesizes.A4 = (210 * mm, 297 * mm), mm = 72 / 25.4 points
A4 == <<Frac(210 * 720, 254), Frac(297 * 720, 254)>>

\* sheet.width * 72 / self.DPI
ToPoints(px) == Frac(px * 72, DPI)

\* a slip: the 1.0 is left out of the min
Scale_NoCap(sheet) ==
    FMin(FDiv(A4[1], ToPoints(sheet[1])), FDiv(A4[2], ToPoints(sheet[2])))

\* scale = min(scale_x, scale_y, 1.0)
Scale(sheet) ==
    LET scale_x == FDiv(A4[1], ToPoints(sheet[1]))
        scale_y == FDiv(A4[2], ToPoints(sheet[2]))
    IN  FMin(FMin(scale_x, scale_y), Frac(1, 1))

\* the arguments of c.drawImage for one sheet
DrawImage(sheet) ==
    LET scale == Scale(sheet)
        final_width == FMul(ToPoints(sheet[1]), scale)
        final_height == FMul(ToPoints(sheet[2]), scale)
    IN  [sheet  |-> sheet,
         x      |-> FDiv(FSub(A4[1], final_width), Frac(2, 1)),
         y      |-> FDiv(FSub(A4[2], final_height), Frac(2, 1)),
         width  |-> final_width,
         height |-> final_height]

\* the lists handed to save_as_pdf hold at most MaxSheets sheets
MaxSheets == 2

PdfFormats == {"MM35_FULL", "MM120_6X6"}

PdfCounts == {1, 36}

\* an image taller than A4 is wide, as any caller of save_as_pdf may pass
TallImage == <<2480, 4000>>

\* the sizes of the sheets: those create_sheet of the installed revision
\* makes for a few formats and image counts, and one tall image
PdfSheetSizes(r) ==
    {calculate_optimal_size(r, calculate_layout(r, n, get_film_format(ft))) :
        ft \in PdfFormats, n \in PdfCounts}
    \cup {TallImage}

\* every list of at most MaxSheets sheets
PdfSheetLists(r) ==
    UNION {[1..k -> PdfSheetSizes(r)] : k \in 0..MaxSheets}

\* save_as_pdf is entered: the canvas is created
SaveAsPdf(sheets) ==
    /\ pdf_pc \in {"idle", "saved"}
    /\ pdf_pc' = "loop"
    /\ pdf_sheets' = sheets
    /\ pdf_pages' = <<>>
    /\ UNCHANGED <<instVars, rev, sheetVars, sessionVars>>

\* one iteration of "for sheet in sheets": c.drawImage and c.showPage
DrawPage ==
    /\ pdf_pc = "loop"
    /\ Len(pdf_pages) < Len(pdf_sheets)
    /\ pdf_pages' =
           Append(pdf_pages, DrawImage(pdf_sheets[Len(pdf_pages) + 1]))
    /\ UNCHANGED <<instVars, rev, sheetVars, sessionVars, pdf_pc, pdf_sheets>>

\* the loop is exhausted: c.save()
PdfSave ==
    /\ pdf_pc = "loop"
    /\ Len(pdf_pages) = Len(pdf_sheets)
    /\ pdf_pc' = "saved"
    /\ UNCHANGED <<instVars, rev, sheetVars, sessionVars, pdf_sheets,
                   pdf_pages>>

NextPdf ==
    \/ \E sheets \in PdfSheetLists(rev) : SaveAsPdf(sheets)
    \/ DrawPage
    \/ PdfSave

SpecPdf == Init /\ [][NextPdf]_vars

(***************************************************************************)
(* A session of the window: files are dropped, the list is cleared, a      *)
(* format is chosen and the preview is updated.                            *)
(***************************************************************************)
\* the image list holds at most MaxListLen files
MaxListLen == 2

\* one file or two files (the same one twice, too) are dropped at once
DropSizes == {1, 2}

DroppedLists == UNION {[1..k -> Files] : k \in DropSizes}

\* the formats chosen in the combo box
SessionFormats == {"MM35_FULL", "MM120_6X6"}

\* format_combo.currentData(): the FilmType of the current item, or None
\* when the combo box has no current item
CurrentData(combo) == {combo, NoItem}

\* the font of the machine the session runs on
SessionFonts == {"helvetica"}

\* the window is idle: no handler is running
Idle == gui_pc = "idle"

\* update_preview is called: by the button, or by export_sheet after Yes
PreviewCalled == gui_pc \in {"idle", "export_update"}

\* where update_preview returns to
PreviewReturn == IF gui_pc = "idle" THEN "idle" ELSE "export_check"

\* the elements of a sequence
Range(seq) == {seq[i] : i \in 1..Len(seq)}

\* handle_dropped_files (also reached from add_images)
HandleDroppedFiles(files) ==
    /\ Idle
    /\ LET existing_files == images
           NotExisting(file) == file \notin Range(existing_files)
           new_files == SelectSeq(files, NotExisting)
       IN  /\ Len(existing_files \o new_files) <= MaxListLen
           /\ file_paths' = existing_files \o new_files
           /\ images' = load_images(existing_files \o new_files)
    /\ has_unsaved_changes' = TRUE
    /\ marked' = [marked EXCEPT !.image_list = TRUE]
    /\ message' = "none"
    /\ UNCHANGED <<instVars, rev, sheetVars, pdfVars, processed,
                   format_combo, current_sheet, gui_pc, info_text,
                   exportVars>>

\* clear_images, answered with Yes
ClearImages ==
    /\ Idle
    /\ Len(images) > 0
    /\ images' = <<>>
    /\ has_unsaved_changes' = TRUE
    /\ marked' = [marked EXCEPT !.image_list = TRUE]
    /\ message' = "none"
    /\ UNCHANGED <<instVars, rev, sheetVars, pdfVars, file_paths, processed,
                   format_combo, current_sheet, gui_pc, info_text,
                   exportVars>>

\* on_format_changed: another item of the combo box is chosen
FormatChanged(ft) ==
    /\ Idle
    /\ ft # format_combo
    /\ format_combo' = ft
    /\ has_unsaved_changes' = TRUE
    /\ marked' = [marked EXCEPT !.format_combo = TRUE]
    /\ message' = "none"
    /\ UNCHANGED <<instVars, rev, sheetVars, pdfVars, file_paths, images,
                   processed, current_sheet, gui_pc, info_text, exportVars>>

\* on_info_changed: the text of an info field changes (textChanged), the
\* field marks itself and the window flag is set
OnInfoChanged(key, text) ==
    /\ Idle
    /\ text # info_text[key]
    /\ info_text' = [info_text EXCEPT ![key] = text]
    /\ marked' = [marked EXCEPT !.info_fields = @ \cup {key}]
    /\ has_unsaved_changes' = TRUE
    /\ message' = "none"
    /\ UNCHANGED <<instVars, rev, sheetVars, pdfVars, file_paths, images,
                   processed, format_combo, current_sheet, gui_pc,
                   exportVars>>

\* a slip: the early return comes after reset_change_indicators
UpdatePreviewNoImages_Resets ==
    /\ PreviewCalled
    /\ images = <<>>
    /\ message' = "warning:No Images"
    /\ gui_pc' = PreviewReturn
    /\ has_unsaved_changes' = FALSE
    /\ marked' = NoMarks
    /\ UNCHANGED <<instVars, rev, sheetVars, pdfVars, file_paths, images,
                   processed, format_combo, current_sheet, info_text,
                   exportVars>>

\* update_preview without images: a warning and an early return
UpdatePreviewNoImages ==
    /\ PreviewCalled
    /\ images = <<>>
    /\ message' = "warning:No Images"
    /\ gui_pc' = PreviewReturn
    /\ UNCHANGED <<instVars, rev, sheetVars, pdfVars, file_paths, images,
                   processed, format_combo, current_sheet,
                   has_unsaved_changes, editVars, exportVars>>

\* update_preview whose try block raises before create_sheet is called
UpdatePreviewFails(film_type) ==
    /\ PreviewCalled
    /\ images # <<>>
    /\ LET result == update_preview(images, film_type, processed)
       IN  /\ ~result.ok
           /\ processed' = result.processed
           /\ message' = result.message
    /\ gui_pc' = PreviewReturn
    /\ UNCHANGED <<instVars, rev, sheetVars, pdfVars, file_paths, images,
                   format_combo, current_sheet, has_unsaved_changes,
                   editVars, exportVars>>

\* update_preview up to the call of create_sheet, which gets the texts of
\* the info fields
UpdatePreviewCreates(film_type, inf) ==
    /\ PreviewCalled
    /\ images # <<>>
    /\ LET result == update_preview(images, film_type, processed)
       IN  /\ result.ok
           /\ processed' = result.processed
           /\ message' = result.message
           /\ EnterCreateSheet(film_type,
                               [k \in 1..Len(result.processed) |->
                                   result.processed[k].number],
                               inf)
    /\ gui_pc' = IF gui_pc = "idle" THEN "create_sheet"
                 ELSE "export_create_sheet"
    /\ UNCHANGED <<instVars, rev, pdfVars, file_paths, images, format_combo,
                   current_sheet, has_unsaved_changes, editVars, exportVars>>

\* a slip: reset_change_indicators forgets the info fields
UpdatePreviewReturns_FieldsKept ==
    /\ gui_pc \in {"create_sheet", "export_create_sheet"}
    /\ pc = "done"
    /\ current_sheet' = [width       |-> sheet_width,
                         height      |-> sheet_height,
                         numbers     |-> [k \in 1..Len(pasted) |->
                                             pasted[k].number],
                         film_format |-> film_format,
                         info        |-> info]
    /\ has_unsaved_changes' = FALSE
    /\ marked' = [marked EXCEPT !.image_list = FALSE, !.format_combo = FALSE]
    /\ gui_pc' = IF gui_pc = "create_sheet" THEN "idle" ELSE "export_check"
    /\ UNCHANGED <<instVars, rev, sheetVars, pdfVars, file_paths, images,
                   processed, format_combo, message, info_text, exportVars>>

\* create_sheet has returned: the sheet is kept and shown, and
\* reset_change_indicators is called
UpdatePreviewReturns ==
    /\ gui_pc \in {"create_sheet", "export_create_sheet"}
    /\ pc = "done"
    /\ current_sheet' = [width       |-> sheet_width,
                         height      |-> sheet_height,
                         numbers     |-> [k \in 1..Len(pasted) |->
                                             pasted[k].number],
                         film_format |-> film_format,
                         info        |-> info]
    /\ has_unsaved_changes' = FALSE
    /\ marked' = NoMarks
    /\ gui_pc' = IF gui_pc = "create_sheet" THEN "idle" ELSE "export_check"
    /\ UNCHANGED <<instVars, rev, sheetVars, pdfVars, file_paths, images,
                   processed, format_combo, message, info_text, exportVars>>

\* another item of the export_format combo box is chosen; no handler is
\* connected to it
ExportFormatChosen(format_type) ==
    /\ Idle
    /\ format_type # export_format
    /\ export_format' = format_type
    /\ message' = "none"
    /\ UNCHANGED <<instVars, rev, sheetVars, pdfVars, file_paths, images,
                   processed, format_combo, current_sheet,
                   has_unsaved_changes, gui_pc, editVars, reply, save_call>>

\* export_sheet up to the end of the unsaved-changes prompt: the prompt is
\* shown when has_unsaved_changes, Yes calls update_preview, Cancel returns
ExportSheet(answer) ==
    /\ Idle
    /\ save_call' = NoSave
    /\ IF has_unsaved_changes
       THEN /\ answer \in {"Yes", "No", "Cancel"}
            /\ message' = "question:Unsaved Changes"
            /\ reply' = IF answer = "Cancel" THEN "none" ELSE answer
            /\ gui_pc' = CASE answer = "Yes" -> "export_update"
                           [] answer = "No" -> "export_check"
                           [] OTHER -> "idle"
       ELSE /\ answer = "none"
            /\ message' = "none"
            /\ reply' = "none"
            /\ gui_pc' = "export_check"
    /\ UNCHANGED <<instVars, rev, sheetVars, pdfVars, file_paths, images,
                   processed, format_combo, current_sheet,
                   has_unsaved_changes, editVars, export_format>>

\* a slip: the PNG branch calls save_as_jpeg
SaveOperation_PngAsJpeg(format_type) ==
    CASE format_type = "JPEG" -> "save_as_jpeg"
      [] format_type = "PNG"  -> "save_as_jpeg"
      [] OTHER                -> "save_as_pdf"

\* the save method of each export format: "if format_type == ..."
SaveOperation(format_type) ==
    CASE format_type = "JPEG" -> "save_as_jpeg"
      [] format_type = "PNG"  -> "save_as_png"
      [] OTHER                -> "save_as_pdf"

\* export_sheet from "if self.current_sheet is None": the warning, or the
\* file dialog, which gives a path or "" when dismissed, and then the save
\* operation of the format, which succeeds or raises
ExportSave(file_path, saved) ==
    /\ gui_pc = "export_check"
    /\ IF current_sheet = NoSheet
       THEN /\ message' = "warning:No Sheet"
            /\ save_call' = save_call
       ELSE IF file_path = ""
            THEN /\ message' = "none"
                 /\ save_call' = save_call
            ELSE /\ save_call' = [op        |-> SaveOperation(export_format),
                                  sheets    |-> <<current_sheet>>,
                                  file_path |-> file_path]
                 /\ message' = IF saved
                               THEN "information:Export Successful"
                               ELSE "critical:Export Failed"
    /\ gui_pc' = "idle"
    /\ reply' = "none"
    /\ UNCHANGED <<instVars, rev, sheetVars, pdfVars, file_paths, images,
                   processed, format_combo, current_sheet,
                   has_unsaved_changes, editVars, export_format>>

NextSession ==
    \/ \E files \in DroppedLists : HandleDroppedFiles(files)
    \/ ClearImages
    \/ \E ft \in SessionFormats : FormatChanged(ft)
    \/ UpdatePreviewNoImages
    \/ \E film_type \in CurrentData(format_combo) :
           UpdatePreviewFails(film_type)
    \/ \E film_type \in CurrentData(format_combo) :
           UpdatePreviewCreates(film_type, info_text)
    \/ UpdatePreviewReturns
    \/ CalculateLayout
    \/ CalculateOptimalSize
    \/ PlaceImage
    \/ PlaceImagesReturn
    \/ \E font \in SessionFonts : AddInfoSection(font)

\* the window runs with the installed core/contact_sheet.py, the restored
\* revision
InitSession == Init /\ rev = "restored"

SpecSession == InitSession /\ [][NextSession]_vars

(***************************************************************************)
(* The whole window: a readable and an unreadable file are dropped one at  *)
(* a time, the list is cleared, formats are chosen, an info field is       *)
(* edited, the preview is updated and the sheet is exported.               *)
(***************************************************************************)
WindowFiles ==
    {[dir |-> "roll1", stem |-> 1, ext |-> ".JPG", image |-> TRUE],
     [dir |-> "roll1", stem |-> 3, ext |-> ".jpg", image |-> FALSE]}

\* the info field that is edited, and the texts typed into it
WindowFields == {"film"}

ExportFormats == {"JPEG", "PNG", "PDF"}

\* what QFileDialog.getSaveFileName returns: "" when it is dismissed
SavePaths == {"", "contact_sheet"}

NextWindow ==
    \/ \E file \in WindowFiles : HandleDroppedFiles(<<file>>)
    \/ ClearImages
    \/ \E ft \in SessionFormats : FormatChanged(ft)
    \/ \E key \in WindowFields, text \in InfoStrings :
           OnInfoChanged(key, text)
    \/ UpdatePreviewNoImages
    \/ \E film_type \in CurrentData(format_combo) :
           UpdatePreviewFails(film_type)
    \/ \E film_type \in CurrentData(format_combo) :
           UpdatePreviewCreates(film_type, info_text)
    \/ UpdatePreviewReturns
    \/ \E format_type \in ExportFormats : ExportFormatChosen(format_type)
    \/ \E answer \in {"Yes", "No", "Cancel", "none"} : ExportSheet(answer)
    \/ \E file_path \in SavePaths, saved \in BOOLEAN :
           ExportSave(file_path, saved)
    \/ CalculateLayout
    \/ CalculateOptimalSize
    \/ PlaceImage
    \/ PlaceImagesReturn
    \/ \E font \in SessionFonts : AddInfoSection(font)

SpecWindow == InitSession /\ [][NextWindow]_vars

(***************************************************************************)
(* Properties.                                                             *)
(***************************************************************************)
\* _calculate_layout has returned
LaidOut ==
    pc \in {"calculate_optimal_size", "place_images", "add_info_section",
            "done"}

\* _calculate_optimal_size has returned
Sized == pc \in {"place_images", "add_info_section", "done"}

\* the gap terms of min_height, per revision
GapTerms == IF rev = "r171305" THEN unified_gap + 2 + unified_gap
            ELSE image_info_gap

\* the canvas of r165728 before its A4 limit
PreClampSize ==
    LET min_width  == layout_info.content_width + 2 * margin
        min_height == 2 * margin + layout_info.content_height
                          + image_info_gap + info_height
        hfw == (min_width * 5) \div 4
    IN  IF hfw >= min_height THEN <<min_width, hfw>>
        ELSE <<(min_height * 4) \div 5, min_height>>

\* the maximum-page clamp did not engage (only r165728 has one)
NoClamp ==
    \/ rev # "r165728"
    \/ (PreClampSize[1] <= a4_width /\ PreClampSize[2] <= a4_height)

\* C1: for every format and N >= 1, when the maximum-page clamp did not
\* engage, the canvas is at least content_width + 2*margin wide and at
\* least 2*margin + content_height + gaps + info_height high, both at once
\* (so the width post-check never leaves the height below min_height).
C1_ContentFits ==
    (Sized /\ num_images >= 1 /\ NoClamp) =>
        /\ sheet_width >= layout_info.content_width + 2 * margin
        /\ sheet_height >= 2 * margin + layout_info.content_height
                               + GapTerms + info_height

\* C1 witness: a post-check revision whose width post-check fired (the
\* height-driven width came out below min_width) for N >= 1
C1_Witness ==
    /\ Sized
    /\ rev = "restored"
    /\ num_images >= 1
    /\ (((5 * (layout_info.content_width + 2 * margin)) \div 4) * 4) \div 5
           < layout_info.content_width + 2 * margin
    /\ sheet_width = layout_info.content_width + 2 * margin

\* C2: for every format and N >= 0 the canvas never exceeds A4 at 300 DPI:
\* width <= a4_width and height <= a4_height.
C2_WithinA4 ==
    Sized => (sheet_width <= a4_width /\ sheet_height <= a4_height)

\* C3: for every format and N >= 1, when the clamp does not engage, the
\* canvas has the 4:5 ratio up to integer truncation.
C3_TargetRatio ==
    (Sized /\ num_images >= 1 /\ NoClamp) =>
        /\ \/ sheet_width = (4 * sheet_height) \div 5
           \/ sheet_height = (5 * sheet_width) \div 4
        /\ 5 * sheet_width - 4 * sheet_height <= 4
        /\ 4 * sheet_height - 5 * sheet_width <= 4

\* C3 witness: scenario B, a single image, rendered to the end
C3_Witness ==
    /\ pc = "done"
    /\ rev = "restored"
    /\ num_images = 1
    /\ film_format = "MM35_HALF"
    /\ layout_info.rows_needed = 1
    /\ sheet_height = (5 * sheet_width) \div 4

\* C4: in r165728, whenever the ratio-driven canvas exceeds the A4 width or
\* height, the returned canvas is exactly (a4_width, floor(a4_width*5/4));
\* N = 100 with 3 images per row gives 34 rows and triggers the clamp.
C4_ClampExact ==
    (rev = "r165728" /\ Sized) =>
        /\ (PreClampSize[1] > a4_width \/ PreClampSize[2] > a4_height) =>
               /\ sheet_width = a4_width
               /\ sheet_height = (a4_width * 5) \div 4
        /\ (num_images = 100 /\ layout_info.images_per_row = 3) =>
               /\ layout_info.rows_needed = 34
               /\ (PreClampSize[1] > a4_width \/ PreClampSize[2] > a4_height)

\* C4 witness: scenario C rendered by r165728
C4_Witness ==
    /\ rev = "r165728"
    /\ pc = "done"
    /\ num_images = 100
    /\ film_format = "MM120_6X6"
    /\ layout_info.rows_needed = 34
    /\ sheet_width = a4_width

\* C5: rows_needed = ceil(N / images_per_row), and it is 0 iff N = 0.
C5_RowsCeil ==
    LaidOut =>
        LET ipr == get_film_format(film_format).images_per_row
            rows == layout_info.rows_needed
        IN  /\ rows * ipr >= num_images
            /\ (rows - 1) * ipr < num_images
            /\ (rows = 0 <=> num_images = 0)

\* C5 witness: 7 images in rows of 3 need 3 rows
C5_Witness ==
    /\ pc = "calculate_optimal_size"
    /\ num_images = 7
    /\ get_film_format(film_format).images_per_row = 3
    /\ layout_info.rows_needed = 3

\* C6: for N = 0 the layout has rows_needed = 0 and content_height = 0 (so
\* that min_height is 2*margin + gaps + info_height alone), and the canvas
\* has positive width and height.
C6_EmptyLayout ==
    (LaidOut /\ num_images = 0) =>
        /\ layout_info.rows_needed = 0
        /\ layout_info.content_height = 0
        /\ Sized => (sheet_width > 0 /\ sheet_height > 0)

\* C7: for N >= 1 with no clamp engaged, the pasted rectangles are pairwise
\* at least the 10px gap apart, every one lies between x = margin and
\* x = sheet_width - margin inside the canvas, and every bottom edge is
\* above the separator line at sheet_height - margin - info_height.
C7_NoClipping ==
    (Sized /\ num_images >= 1 /\ NoClamp) =>
        /\ \A i \in 1..Len(pasted) :
               LET a == pasted[i]
               IN  /\ a.x >= margin
                   /\ a.x + a.w <= sheet_width - margin
                   /\ a.y >= 0
                   /\ a.y + a.h < sheet_height - margin - info_height
                   /\ a.w > 0
                   /\ a.h > 0
        /\ \A i, j \in 1..Len(pasted) :
               i < j =>
                   LET a == pasted[i]
                       b == pasted[j]
                   IN  \/ a.x + a.w + 10 <= b.x
                       \/ b.x + b.w + 10 <= a.x
                       \/ a.y + a.h + 10 <= b.y
                       \/ b.y + b.h + 10 <= a.y
        /\ pc = "done" => line.y = sheet_height - margin - info_height

\* C7 witness: scenario A, 36 images of 35mm Full in a 6 x 6 grid
C7_Witness ==
    /\ pc = "done"
    /\ rev = "restored"
    /\ film_format = "MM35_FULL"
    /\ num_images = 36
    /\ Len(pasted) = 36
    /\ layout_info.rows_needed = 6
    /\ pasted[36].x > pasted[31].x
    /\ pasted[36].y > pasted[6].y

\* C8: the image at 0-based position i is pasted at row i div images_per_row,
\* column i mod images_per_row, top-left (start_x + col*(thumb_width+10),
\* margin + row*(thumb_height+10)), start_x = (sheet_width - content_width)
\* div 2; after k images the counters are k div / k mod images_per_row; every
\* input image is placed exactly once.
C8_RowMajor ==
    Sized =>
        LET ipr     == get_film_format(film_format).images_per_row
            tw      == layout_info.thumb_width
            th      == layout_info.thumb_height
            start_x == (sheet_width - layout_info.content_width) \div 2
            k       == Len(pasted)
        IN  /\ \A p \in 1..k :
                   LET i   == p - 1
                       row == i \div ipr
                       col == i % ipr
                   IN  /\ pasted[p].x = start_x + col * (tw + 10)
                       /\ pasted[p].y = margin + row * (th + 10)
                       /\ pasted[p].number = p
            /\ current_row = k \div ipr
            /\ current_col = k % ipr
            /\ k <= num_images
            /\ pc \in {"add_info_section", "done"} => k = num_images

\* C8 witness: 7 images in rows of 3 leave the counters at row 2, column 1
C8_Witness ==
    /\ pc = "done"
    /\ num_images = 7
    /\ Len(pasted) = 7
    /\ get_film_format(film_format).images_per_row = 3
    /\ current_row = 2
    /\ current_col = 1
    /\ pasted[7].y = margin + 2 * (layout_info.thumb_height + 10)

\* the reference computation of the canvas size, as C9 states it
ReferenceSize(min_width, min_height) ==
    LET hfw    == (min_width * 5) \div 4
        wfh    == (min_height * 4) \div 5
        widthDriven == hfw >= min_height /\ min_width <= wfh
        w1     == IF widthDriven THEN (IF min_width >= wfh THEN min_width
                                       ELSE wfh)
                  ELSE ((IF min_height >= hfw THEN min_height ELSE hfw) * 4)
                           \div 5
        h1     == IF widthDriven THEN (w1 * 5) \div 4
                  ELSE (IF min_height >= hfw THEN min_height ELSE hfw)
        w2     == IF h1 < min_height THEN (min_height * 4) \div 5 ELSE w1
        h2     == IF h1 < min_height THEN min_height ELSE h1
        w3     == IF w2 < min_width THEN min_width ELSE w2
        h3     == IF w2 < min_width THEN (min_width * 5) \div 4 ELSE h2
    IN  <<w3, h3>>

\* C9: in the restored and r171305 revisions _calculate_optimal_size returns
\* the reference computation applied to min_width = content_width + 2*margin
\* and min_height = 2*margin + content_height + gaps + info_height.
C9_ReferenceSize ==
    (Sized /\ rev # "r165728") =>
        <<sheet_width, sheet_height>> =
            ReferenceSize(layout_info.content_width + 2 * margin,
                          2 * margin + layout_info.content_height
                              + GapTerms + info_height)

\* C9 witness: a height-driven canvas (min_height above height_from_width)
C9_Witness ==
    /\ pc = "done"
    /\ rev = "r171305"
    /\ num_images >= 1
    /\ sheet_height = 2 * margin + layout_info.content_height
                          + 2 * unified_gap + 2 + info_height
    /\ sheet_width > layout_info.content_width + 2 * margin

\* C10 as stated: thumb_width = max(floor((W - 2*margin - (ipr-1)*10) / ipr),
\* 30mm) with the same W = 210mm at 300 DPI for every format, and
\* content_width <= W - 2*margin when the minimum does not engage.
C10_SameBasis ==
    LaidOut =>
        LET ipr  == get_film_format(film_format).images_per_row
            W    == a4_width
            cell == (W - 2 * margin - (ipr - 1) * 10) \div ipr
        IN  /\ layout_info.thumb_width =
                   (IF cell >= min_thumb_size THEN cell ELSE min_thumb_size)
            /\ cell >= min_thumb_size =>
                   layout_info.content_width <= W - 2 * margin

\* C10 amended: in the restored and r171305 revisions the basis W is
\* int(1.2 * base_width) for formats with images_per_row <= 3 and base_width
\* otherwise; thumb_width = max(floor((W - 2*margin - (ipr-1)*10) / ipr),
\* 30mm), and content_width <= W - 2*margin when the minimum does not engage.
\* r165728 computes floor((a4_width - 2*margin) / ipr) - 10 with no minimum,
\* and there content_width <= a4_width - 2*margin.
C10_PerFormatBasis ==
    LaidOut =>
        LET ipr  == get_film_format(film_format).images_per_row
            W    == IF rev = "r165728" THEN a4_width
                    ELSE IF ipr <= 3 THEN (base_width * 12) \div 10
                    ELSE base_width
            cell == (W - 2 * margin - (ipr - 1) * 10) \div ipr
        IN  IF rev = "r165728"
            THEN /\ layout_info.thumb_width = ((W - 2 * margin) \div ipr) - 10
                 /\ layout_info.content_width <= W - 2 * margin
            ELSE /\ layout_info.thumb_width =
                        (IF cell >= min_thumb_size THEN cell
                         ELSE min_thumb_size)
                 /\ cell >= min_thumb_size =>
                        layout_info.content_width <= W - 2 * margin

\* C10 witness: a 120mm format laid out on the widened basis
C10_Witness ==
    /\ pc = "calculate_optimal_size"
    /\ rev = "restored"
    /\ film_format = "MM120_6X7"
    /\ layout_info.thumb_width >
           (a4_width - 2 * margin - 20) \div 3
    /\ layout_info.content_width > a4_width - 2 * margin

\* |x|
Abs(x) == IF x >= 0 THEN x ELSE -x

\* C11 as stated: the cell height is the integer nearest to
\* thumb_width * aspect_h / aspect_w.
C11_NearestHeight ==
    LaidOut =>
        LET fmt == get_film_format(film_format)
            aw  == fmt.aspect_ratio[1]
            ah  == fmt.aspect_ratio[2]
        IN  2 * Abs(layout_info.thumb_width * ah
                        - layout_info.thumb_height * aw) <= aw

\* C11 amended: the cell height is thumb_width * aspect_h / aspect_w
\* truncated (int()), i.e. the largest integer not above the exact value.
C11_TruncatedHeight ==
    LaidOut =>
        LET fmt == get_film_format(film_format)
            aw  == fmt.aspect_ratio[1]
            ah  == fmt.aspect_ratio[2]
            tw  == layout_info.thumb_width
            th  == layout_info.thumb_height
        IN  /\ th * aw <= tw * ah
            /\ tw * ah < (th + 1) * aw

\* C11 witness: 6x7 in the restored revision, 906 * 6 / 7 = 776.57 -> 776
C11_Witness ==
    /\ pc = "calculate_optimal_size"
    /\ rev = "restored"
    /\ film_format = "MM120_6X7"
    /\ layout_info.thumb_width = 906
    /\ layout_info.thumb_height = 776

\* C12: for every format and N the cell height differs from the exact
\* thumb_width * aspect_h / aspect_w by less than one pixel, and thumb_width
\* and thumb_height are both positive.
C12_AspectWithinOnePixel ==
    LaidOut =>
        LET fmt == get_film_format(film_format)
            aw  == fmt.aspect_ratio[1]
            ah  == fmt.aspect_ratio[2]
            tw  == layout_info.thumb_width
            th  == layout_info.thumb_height
        IN  /\ tw > 0
            /\ th > 0
            /\ Abs(tw * ah - th * aw) < aw

\* C12 witness: 35mm Half in r165728, 177 * 3 / 2 = 265.5 -> 265
C12_Witness ==
    /\ LaidOut
    /\ rev = "r165728"
    /\ film_format = "MM35_HALF"
    /\ num_images = 3
    /\ layout_info.thumb_width = 177
    /\ layout_info.thumb_height = 265

\* px is the integer nearest to mm * 300 / 25.4
NearestPx(px, mm) == 2 * Abs(px * 254 - mm * 3000) <= 254

\* px is mm * 300 / 25.4 truncated
TruncatedPx(px, mm) == px * 254 <= mm * 3000 /\ mm * 3000 < (px + 1) * 254

\* C13 as stated: every physical constant is round(mm * 300 / 25.4).
C13_RoundedConstants ==
    /\ NearestPx(margin, 10)
    /\ NearestPx(info_height, 35)
    /\ NearestPx(image_info_gap, 8)
    /\ NearestPx(unified_gap, 6)
    /\ NearestPx(min_thumb_size, 30)
    /\ NearestPx(base_width, 210)
    /\ NearestPx(a4_width, 210)
    /\ NearestPx(a4_height, 297)
    /\ pc = "done" => line.x0 = margin

\* C13 amended: every physical constant is int(mm * 300 / 25.4), the value
\* truncated; this is round(...) for all but the 6mm unified gap (70, not
\* 71) and the A4 height (3507, not 3508).
C13_TruncatedConstants ==
    /\ TruncatedPx(margin, 10)
    /\ TruncatedPx(info_height, 35)
    /\ TruncatedPx(image_info_gap, 8)
    /\ TruncatedPx(unified_gap, 6)
    /\ TruncatedPx(min_thumb_size, 30)
    /\ TruncatedPx(base_width, 210)
    /\ TruncatedPx(a4_width, 210)
    /\ TruncatedPx(a4_height, 297)
    /\ NearestPx(margin, 10) /\ NearestPx(info_height, 35)
    /\ NearestPx(image_info_gap, 8) /\ NearestPx(min_thumb_size, 30)
    /\ NearestPx(base_width, 210)
    /\ unified_gap = 70
    /\ a4_height = 3507
    /\ pc = "done" => line.x0 = margin

\* C13 witness: r171305 has sized a height-driven canvas from the truncated
\* 6mm gap
C13_Witness ==
    /\ pc = "place_images"
    /\ rev = "r171305"
    /\ num_images >= 1
    /\ sheet_height = 2 * 118 + layout_info.content_height + 70 + 2 + 70 + 413

(***************************************************************************)
(* Footer properties, over the renders of SpecFooter.                      *)
(***************************************************************************)
\* the field is populated: present in the dict and not empty
Populated(key) == key \in DOMAIN info /\ info[key] # ""

\* the rows drawn in one column, in drawing order
RowsOf(column) ==
    LET InColumn(t) == t.column = column
    IN  SelectSeq(texts, InColumn)

\* the position of a field in the order of the footer
FieldRank(key) ==
    CASE key = "date"      -> 1
      [] key = "location"  -> 2
      [] key = "developer" -> 3
      [] key = "camera"    -> 1
      [] key = "lens"      -> 2
      [] key = "film"      -> 1

\* the rows of a column are exactly the populated fields, in field order
ColumnHolds(column, keys) ==
    LET rows == RowsOf(column)
    IN  /\ \A key \in keys :
               Populated(key) <=> \E i \in 1..Len(rows) : rows[i].key = key
        /\ \A i \in 1..Len(rows) : rows[i].key \in keys
        /\ \A i, j \in 1..Len(rows) :
               i < j => FieldRank(rows[i].key) < FieldRank(rows[j].key)

\* the y of the first row: 15 pixels under the separator line, or one
\* unified gap under it in r171305
FirstRowY ==
    (sheet_height - margin - info_height)
        + (IF rev = "r171305" THEN 70 ELSE 15)

\* the k-th row (from 0) of each column is at FirstRowY + k * 75
RowsSpaced ==
    \A column \in {"left", "right"} :
        LET rows == RowsOf(column)
        IN  \A i \in 1..Len(rows) : rows[i].y = FirstRowY + (i - 1) * 75

\* C15: the separator line is drawn at y = sheet_height - margin -
\* info_height from x = margin to x = sheet_width - margin, whichever fields
\* are populated.
C15_SeparatorLine ==
    pc = "done" =>
        /\ line.y = sheet_height - margin - info_height
        /\ line.x0 = margin
        /\ line.x1 = sheet_width - margin

\* C15 witness: a sheet rendered with all six fields populated
C15_Witness ==
    /\ pc = "done"
    /\ \A key \in InfoKeys : Populated(key)
    /\ Len(texts) >= 5
    /\ line.y = sheet_height - 531
    /\ line.x0 = 118
    /\ line.x1 = sheet_width - 118

\* C16 as stated: the columns hold the populated fields in order, the k-th
\* row is at y_offset + k * line_height, and the rows of the right column
\* start at x = sheet_width div 2.
C16_RightAtMidpoint ==
    pc = "done" =>
        /\ ColumnHolds("left", {"date", "location", "developer"})
        /\ ColumnHolds("right", {"camera", "lens"})
        /\ RowsSpaced
        /\ \A i \in 1..Len(texts) :
               texts[i].column = "right" => texts[i].x = sheet_width \div 2

\* C16 amended: the columns hold the populated fields in order and the k-th
\* row is at y_offset + k * line_height; the right column starts at
\* sheet_width div 2, where its rows are drawn in the restored revision and
\* r165728 (the left rows at the margin), while r171305 centres every row in
\* its half of the content width.
C16_Columns ==
    pc = "done" =>
        /\ ColumnHolds("left", {"date", "location", "developer"})
        /\ ColumnHolds("right", {"camera", "lens"})
        /\ RowsSpaced
        /\ \A i \in 1..Len(texts) :
               LET t == texts[i]
                   half == (sheet_width - 2 * margin) \div 2
               IN  /\ (t.column = "left" /\ rev # "r171305") => t.x = margin
                   /\ (t.column = "right" /\ rev # "r171305") =>
                          t.x = sheet_width \div 2
                   /\ (t.column = "left" /\ rev = "r171305") =>
                          t.x = margin + (half - t.w) \div 2
                   /\ (t.column = "right" /\ rev = "r171305") =>
                          t.x = sheet_width \div 2 + (half - t.w) \div 2

\* C16 witness: r171305 drew two left rows and one right row from a dict
\* with an empty date and no camera
C16_Witness ==
    /\ pc = "done"
    /\ rev = "r171305"
    /\ "date" \in DOMAIN info /\ info["date"] = ""
    /\ "camera" \notin DOMAIN info
    /\ Len(RowsOf("left")) = 2
    /\ RowsOf("left")[1].key = "location"
    /\ RowsOf("left")[2].y = RowsOf("left")[1].y + 75
    /\ Len(RowsOf("right")) = 1
    /\ RowsOf("right")[1].key = "lens"
    /\ RowsOf("right")[1].x > sheet_width \div 2

\* the number of populated fields among keys
CountPopulated(keys) == Cardinality({key \in keys : Populated(key)})

\* film_y as the claim gives it: y_offset + max(rows) * line_height + gap
ClaimedFilmY ==
    FirstRowY
        + 75 * Max(CountPopulated({"date", "location", "developer"}),
                   CountPopulated({"camera", "lens"}))
        + (IF rev = "r171305" THEN 70 ELSE 33)

\* C17: the film line is drawn iff film is populated and
\* film_y + 83 <= sheet_height - margin, at y = film_y; otherwise it is
\* omitted, and no footer row is placed below sheet_height - margin.
C17_FilmLine ==
    pc = "done" =>
        /\ (\E i \in 1..Len(texts) : texts[i].column = "film")
               <=> (Populated("film")
                    /\ ClaimedFilmY + 83 <= sheet_height - margin)
        /\ Len(RowsOf("film")) <= 1
        /\ \A i \in 1..Len(texts) :
               /\ texts[i].column = "film" =>
                      /\ texts[i].y = ClaimedFilmY
                      /\ texts[i].y + 83 <= sheet_height - margin
               /\ texts[i].y <= sheet_height - margin

\* C17 witness: r171305 with three left rows omits a populated film line
C17_Witness ==
    /\ pc = "done"
    /\ rev = "r171305"
    /\ Populated("film")
    /\ Len(RowsOf("left")) = 3
    /\ Len(RowsOf("film")) = 0
    /\ ClaimedFilmY + 83 > sheet_height - margin

\* only the film field is populated
OnlyFilm ==
    /\ Populated("film")
    /\ \A key \in InfoKeys \ {"film"} : ~Populated(key)

\* C18 as stated: with only film populated the film line is the only row,
\* at y = separator y + one unified gap, horizontally centred.
C18_OneGapBelowLine ==
    (pc = "done" /\ OnlyFilm) =>
        /\ Len(texts) = 1
        /\ texts[1].column = "film"
        /\ texts[1].y = line.y + unified_gap
        /\ texts[1].x = (sheet_width - texts[1].w) \div 2

\* C18 amended: with only film populated the film line is the only row,
\* horizontally centred, at y = y_offset + gap: 15 + 33 = 48 pixels below
\* the separator line, or two unified gaps (140 pixels) below it in r171305.
C18_OnlyFilm ==
    (pc = "done" /\ OnlyFilm) =>
        /\ Len(texts) = 1
        /\ texts[1].column = "film"
        /\ texts[1].y = line.y + (IF rev = "r171305" THEN 2 * 70 ELSE 15 + 33)
        /\ texts[1].x = (sheet_width - texts[1].w) \div 2

\* C18 witness: r171305 rendered a dict whose only populated field is film
C18_Witness ==
    /\ pc = "done"
    /\ rev = "r171305"
    /\ OnlyFilm
    /\ Len(texts) = 1
    /\ texts[1].text = "Film: Tri-X 400"
    /\ texts[1].y = line.y + 140

(***************************************************************************)
(* PDF export properties, over SpecPdf.                                    *)
(***************************************************************************)
\* the A4 page in points: 210mm x 297mm at 72 points per inch
PageWidth == [n |-> 75600, d |-> 127]

PageHeight == [n |-> 106920, d |-> 127]

\* the size of a sheet at 300 DPI in points: pixels * 72 / 300
NaturalPoints(px) == Frac(px * 6, 25)

\* a = b for fractions in lowest terms
FEq(a, b) == a.n = b.n /\ a.d = b.d

\* the page of one sheet: the image keeps the sheet's ratio, lies centred
\* inside the page, is not larger than its natural size, and is as large as
\* these limits allow (scale = min(pageW/sheetW, pageH/sheetH, 1))
PageAsClaimed(p) ==
    LET natural_w == NaturalPoints(p.sheet[1])
        natural_h == NaturalPoints(p.sheet[2])
    IN  /\ p.x.n >= 0 /\ p.y.n >= 0
        /\ FLeq(p.width, PageWidth) /\ FLeq(p.height, PageHeight)
        /\ FEq(FSub(FSub(PageWidth, p.width), p.x), p.x)
        /\ FEq(FSub(FSub(PageHeight, p.height), p.y), p.y)
        /\ FEq(FMul(p.width, Frac(p.sheet[2], 1)),
               FMul(p.height, Frac(p.sheet[1], 1)))
        /\ FLeq(p.width, natural_w) /\ FLeq(p.height, natural_h)
        /\ \/ FEq(p.width, natural_w)
           \/ FEq(p.width, PageWidth)
           \/ FEq(p.height, PageHeight)

C19_HeightLimited ==
    /\ pdf_pc = "saved"
    /\ Len(pdf_pages) >= 1
    /\ pdf_pages[1].height = PageHeight
    /\ pdf_pages[1].y.n = 0
    /\ pdf_pages[1].x.n > 0

(***************************************************************************)
(* Session properties, over SpecSession.                                   *)
(***************************************************************************)
\* file name a is not greater than file name b
NameLeq(a, b) ==
    \/ a.stem < b.stem
    \/ a.stem = b.stem /\ ExtRank(a.ext) <= ExtRank(b.ext)

\* the files of a list that carry the name of file, in list order
SameName(files, file) ==
    LET Named(f) == f.stem = file.stem /\ f.ext = file.ext
    IN  SelectSeq(files, Named)

\* out holds the files of in, ordered by non-decreasing name, files of equal
\* name in the order they have in in
StableByName(out, in) ==
    /\ Len(out) = Len(in)
    /\ \A i, j \in 1..Len(out) : i < j => NameLeq(out[i], out[j])
    /\ \A i \in 1..Len(in) : SameName(out, in[i]) = SameName(in, in[i])

\* C14: after load_images and process_images the image list is ordered by
\* non-decreasing file name (stable for equal names), the image at position
\* k carries number k, the numbers are exactly 1..N, and _place_images
\* stamps the cell with 0-based index i with number i + 1.
C14_NumberedInNameOrder ==
    /\ images = <<>>
           \/ StableByName(images, SelectSeq(file_paths, is_valid_image))
    /\ \A k \in 1..Len(processed) : processed[k].number = k
    /\ gui_pc = "create_sheet" =>
           /\ Len(processed) = Len(images)
           /\ \A k \in 1..Len(images) : processed[k].image = images[k]
           /\ numbers = [k \in 1..Len(images) |-> k]
           /\ \A i \in 0..(Len(pasted) - 1) :
                  LET cell == pasted[i + 1]
                      per_row == get_film_format(film_format).images_per_row
                  IN  /\ cell.number = i + 1
                      /\ cell.x = (sheet_width - layout_info.content_width)
                                      \div 2
                                  + (i % per_row) * (cell.w + 10)
                      /\ cell.y = margin + (i \div per_row) * (cell.h + 10)
           /\ pc \in {"add_info_section", "done"} =>
                  Len(pasted) = Len(images)

\* C14 witness: img2.jpg was dropped before img1.JPG; the list is sorted
\* and the sheet carries the numbers 1, 2 in that order
C14_Witness ==
    /\ gui_pc = "create_sheet"
    /\ pc = "done"
    /\ Len(file_paths) = 2
    /\ file_paths[1].stem = 2
    /\ file_paths[2].stem = 1
    /\ Len(images) = 2
    /\ images[1] = file_paths[2]
    /\ images[2] = file_paths[1]
    /\ processed[1].image = images[1]
    /\ Len(pasted) = 2
    /\ pasted[1].number = 1
    /\ pasted[2].number = 2

\* two files of equal name keep the order in which they were given
C14_EqualNames ==
    /\ Len(images) = 2
    /\ images[1].dir = "roll2"
    /\ images[2].dir = "roll1"
    /\ images[1].stem = images[2].stem
    /\ images[1].ext = images[2].ext
    /\ images = file_paths

\* C20: get_film_format fails for an id that is not in the catalog, and in
\* update_preview the lookup comes first: a failed lookup opens no image,
\* creates no canvas and leaves current_sheet, has_unsaved_changes (and the
\* processed images and the sheet state) unchanged; a sheet is only created
\* for a format of the catalog.
C20_FailedLookup ==
    [][/\ (message' = "critical:KeyError" /\ gui_pc = "idle") =>
              /\ current_sheet' = current_sheet
              /\ has_unsaved_changes' = has_unsaved_changes
              /\ processed' = processed
              /\ images' = images
              /\ gui_pc' = "idle"
              /\ UNCHANGED sheetVars
       /\ (gui_pc = "idle" /\ gui_pc' = "create_sheet") =>
              film_format' \in {"MM35_FULL", "MM35_HALF", "MM120_6X6",
                                "MM120_6X45", "MM120_6X7", "MM120_6X8",
                                "MM120_6X9", "MM127_4X4"}]_vars

\* C20 witness: a preview was made, another file was dropped, and the next
\* update_preview failed at the lookup: the old sheet and the old processed
\* images are still there
C20_Witness ==
    /\ message = "critical:KeyError"
    /\ gui_pc = "idle"
    /\ current_sheet # NoSheet
    /\ Len(processed) = 1
    /\ Len(images) = 2
    /\ has_unsaved_changes
    /\ pc = "done"

\* an earlier call of this run is on record, made with the format and the
\* image count of the call that has now sized its canvas
SameCallAgain ==
    /\ Sized
    /\ earlier.film_format = film_format
    /\ earlier.num_images = num_images

\* C21: in any sequence of renders no call changes an attribute of the
\* ContactSheet instance, and a call made with the image count and the
\* format of an earlier call returns the layout and the canvas size that
\* call returned
C21_RepeatableCalls ==
    /\ fields = ContactSheetFields
    /\ SameCallAgain =>
           /\ layout_info = earlier.layout_info
           /\ sheet_width = earlier.width
           /\ sheet_height = earlier.height

\* seven 6x6 images are rendered a second time, after a render of another
\* count or format in between
C21_Witness ==
    /\ SameCallAgain
    /\ pc = "done"
    /\ film_format = "MM120_6X6"
    /\ num_images = 7
    /\ layout_info.rows_needed = 3
    /\ earlier.width = sheet_width

\* an earlier call of the same format is on record, both calls of at least
\* one image
SameFormatAgain ==
    /\ Sized
    /\ earlier.film_format = film_format
    /\ earlier.num_images >= 1
    /\ num_images >= 1

\* C29: for a fixed format the canvas is monotone in the image count (no
\* narrower and no lower for no fewer images), and two counts that need the
\* same number of rows give the same canvas
C29_MonotoneCanvas ==
    SameFormatAgain =>
        /\ earlier.num_images <= num_images =>
               /\ earlier.width <= sheet_width
               /\ earlier.height <= sheet_height
        /\ earlier.num_images >= num_images =>
               /\ earlier.width >= sheet_width
               /\ earlier.height >= sheet_height
        /\ earlier.layout_info.rows_needed = layout_info.rows_needed =>
               /\ earlier.width = sheet_width
               /\ earlier.height = sheet_height

\* seven 6x4.5 images (three rows) after six (two rows): the canvas grew
\* in both directions
C29_Witness ==
    /\ SameFormatAgain
    /\ pc = "done"
    /\ rev = "restored"
    /\ film_format = "MM120_6X45"
    /\ earlier.num_images = 6
    /\ num_images = 7
    /\ earlier.layout_info.rows_needed = 2
    /\ layout_info.rows_needed = 3
    /\ earlier.height < sheet_height
    /\ earlier.width < sheet_width

\* C27: for positive min_width and min_height the tie-break with
\* post-checks returns the (width, height) of the simple tie-break, and its
\* width-driven branch is taken only when min_width : min_height is 4 : 5
C27_SameAsSimple ==
    tie # NoTie =>
        /\ tie.later = tie.simple
        /\ tie.width_driven => 5 * tie.min_width = 4 * tie.min_height

\* the width-driven branch was taken for 24 : 30, and both forms returned
\* the pair itself
C27_Witness ==
    /\ tie.min_width = 24
    /\ tie.min_height = 30
    /\ tie.width_driven
    /\ tie.later = <<24, 30>>
    /\ tie.simple = <<24, 30>>

\* C30: the catalog has exactly one entry for each of the eight film types,
\* the entry looked up for a type carries that type, has a positive
\* images_per_row and positive aspect components, an orientation that says
\* how the aspect width compares with the aspect height, and force_rotation
\* exactly when the orientation is not square; and the catalog is in every
\* state what film_formats.py built
C30_Catalog ==
    /\ DOMAIN catalog =
           {"MM35_FULL", "MM35_HALF", "MM120_6X6", "MM120_6X45", "MM120_6X7",
            "MM120_6X8", "MM120_6X9", "MM127_4X4"}
    /\ \A t \in DOMAIN catalog :
           LET f == get_film_format(t)
               w == f.aspect_ratio[1]
               h == f.aspect_ratio[2]
           IN  /\ f.type = t
               /\ f.images_per_row > 0
               /\ w > 0
               /\ h > 0
               /\ f.orientation \in {"landscape", "portrait", "square"}
               /\ f.orientation = "landscape" <=> w > h
               /\ f.orientation = "portrait" <=> w < h
               /\ f.orientation = "square" <=> w = h
               /\ f.force_rotation <=> f.orientation # "square"
    /\ catalog = FILM_FORMATS

\* a sheet of 6x4.5 frames has been rendered from the portrait entry, and
\* the catalog still holds it
C30_Witness ==
    /\ pc = "done"
    /\ film_format = "MM120_6X45"
    /\ num_images = 4
    /\ layout_info.images_per_row = 3
    /\ layout_info.thumb_height > layout_info.thumb_width
    /\ catalog[film_format].orientation = "portrait"
    /\ catalog[film_format].force_rotation

\* C28: for a format with force_rotation the image that comes out is not
\* portrait when the format is landscape and not landscape when it is
\* portrait; width and height are swapped when the image was rotated and
\* kept when it was not; a square image and an image that already matches
\* are not rotated; handling the result again changes nothing; a format
\* without force_rotation never rotates
C28_Rotation ==
    rotation # NoRotation =>
        LET f      == FILM_FORMATS[rotation.film_type]
            w      == rotation.size[1]
            h      == rotation.size[2]
            out    == rotation.once
            target == f.orientation
        IN  /\ rotation.rotated => out = <<h, w>>
            /\ ~rotation.rotated => out = <<w, h>>
            /\ rotation.twice = out
            /\ f.force_rotation =>
                   /\ target = "landscape" => ~(out[2] > out[1])
                   /\ target = "portrait" => ~(out[1] > out[2])
                   /\ w = h => ~rotation.rotated
                   /\ (target = "landscape" /\ w > h) => ~rotation.rotated
                   /\ (target = "portrait" /\ h > w) => ~rotation.rotated
            /\ ~f.force_rotation => ~rotation.rotated

\* a 2 x 5 image was turned for a landscape format
C28_Witness ==
    /\ rotation.size = <<2, 5>>
    /\ rotation.film_type = "MM35_FULL"
    /\ rotation.rotated
    /\ rotation.once = <<5, 2>>
    /\ rotation.twice = <<5, 2>>

\* what the window shows and holds, apart from the message boxes and the
\* position of the running handler
windowState ==
    <<file_paths, images, processed, format_combo, current_sheet,
      has_unsaved_changes, info_text, marked, export_format>>

\* C22: a step of update_preview made with an empty image list (the warning
\* "No Images") leaves current_sheet, has_unsaved_changes, every change
\* indicator and the state of create_sheet as they were; and create_sheet
\* is never entered by the window with no image
C22_EmptyPreview ==
    [][/\ (images = <<>> /\ message' = "warning:No Images") =>
              /\ current_sheet' = current_sheet
              /\ has_unsaved_changes' = has_unsaved_changes
              /\ marked' = marked
              /\ UNCHANGED sheetVars
       /\ pc' # "idle" => num_images' >= 1]_vars

\* after a preview the list was cleared and update_preview was called: the
\* warning is up, the old sheet, the flag and the list indicator are kept
C22_Witness ==
    /\ images = <<>>
    /\ message = "warning:No Images"
    /\ gui_pc = "idle"
    /\ current_sheet # NoSheet
    /\ has_unsaved_changes
    /\ marked.image_list
    /\ pc = "done"
    /\ num_images = 1

\* C23: every edit (the list handed to load_images, the images, the format
\* or the text of an info field changes) leaves has_unsaved_changes true;
\* the flag goes from true to false only when create_sheet has returned
\* into update_preview, and that step marks every info field as saved;
\* hence an info field is marked changed only while the flag is true
C23_UnsavedChanges ==
    [][/\ (\/ file_paths' # file_paths
           \/ images' # images
           \/ format_combo' # format_combo
           \/ info_text' # info_text) => has_unsaved_changes'
       /\ (has_unsaved_changes /\ ~has_unsaved_changes') =>
              /\ gui_pc \in {"create_sheet", "export_create_sheet"}
              /\ pc = "done"
              /\ current_sheet' # NoSheet
              /\ marked'.info_fields = {}
       /\ marked'.info_fields # {} => has_unsaved_changes']_vars

\* the film field was edited after a preview: it is marked, the flag is
\* set, and the sheet on show still carries the old text
C23_Witness ==
    /\ gui_pc = "idle"
    /\ marked.info_fields = {"film"}
    /\ ~marked.image_list
    /\ has_unsaved_changes
    /\ current_sheet # NoSheet
    /\ current_sheet.info["film"] = "Tri-X 400"
    /\ info_text["film"] = ""

\* the step of export_sheet that comes back from the file dialog without a
\* path
DialogDismissed ==
    /\ gui_pc = "export_check"
    /\ current_sheet # NoSheet
    /\ gui_pc' = "idle"
    /\ message' = "none"

\* the step of export_sheet that ends at Cancel
PromptCancelled ==
    /\ gui_pc = "idle"
    /\ gui_pc' = "idle"
    /\ message' = "question:Unsaved Changes"

\* a save operation is invoked only with a sheet and a path, and it is the
\* one of the selected format, given the current sheet
SaveAsSelected ==
    (save_call' # save_call /\ save_call' # NoSave) =>
        /\ gui_pc = "export_check"
        /\ current_sheet # NoSheet
        /\ save_call'.file_path # ""
        /\ save_call'.sheets = <<current_sheet>>
        /\ export_format = "JPEG" => save_call'.op = "save_as_jpeg"
        /\ export_format = "PNG" => save_call'.op = "save_as_png"
        /\ export_format = "PDF" => save_call'.op = "save_as_pdf"

\* C24 as stated: a save operation runs only with a sheet and a path and
\* matches the format; an export_sheet call that ends at Cancel or at a
\* dismissed file dialog saves nothing and changes no window state, so that
\* after a Yes at the prompt the flag that raised the prompt is still set
C24_NoStateChange ==
    [][/\ SaveAsSelected
       /\ PromptCancelled =>
              /\ save_call' = NoSave
              /\ UNCHANGED windowState
       /\ DialogDismissed =>
              /\ save_call' = NoSave
              /\ UNCHANGED windowState
              /\ reply = "Yes" => has_unsaved_changes]_vars

\* C24 amended: a save operation runs only with a sheet and a path and
\* matches the format; Cancel at the prompt saves nothing and changes no
\* window state; dismissing the file dialog saves nothing and changes no
\* window state itself (the update_preview a Yes at the prompt asked for has
\* run before the dialog opens)
C24_SaveOnlyWithSheetAndPath ==
    [][/\ SaveAsSelected
       /\ PromptCancelled =>
              /\ save_call' = NoSave
              /\ UNCHANGED windowState
       /\ DialogDismissed =>
              /\ save_call' = NoSave
              /\ UNCHANGED windowState]_vars

\* a sheet of one image was exported as PDF
C24_Witness ==
    /\ gui_pc = "idle"
    /\ export_format = "PDF"
    /\ save_call.op = "save_as_pdf"
    /\ save_call.file_path = "contact_sheet"
    /\ save_call.sheets = <<current_sheet>>
    /\ Len(current_sheet.numbers) = 1
    /\ message = "information:Export Successful"

\* C25: when export_sheet invokes the save operation after a Yes at the
\* prompt, has_unsaved_changes is false and the sheet handed over was
\* rendered from the images (one numbered cell for each), the format and
\* the info texts the window holds
C25_WrittenSheetIsCurrent ==
    [][(gui_pc = "export_check" /\ reply = "Yes" /\ save_call' # NoSave) =>
           /\ ~has_unsaved_changes
           /\ current_sheet.numbers = [k \in 1..Len(images) |-> k]
           /\ current_sheet.film_format = format_combo
           /\ current_sheet.info = info_text]_vars

\* C26: ImageProcessor.images holds no path twice, and only paths with one
\* of the six image suffixes, in any case of letters
C26_NoDuplicates ==
    /\ \A i, j \in 1..Len(images) : i # j => images[i] # images[j]
    /\ \A i \in 1..Len(images) :
           images[i].ext \in {".jpg", ".jpeg", ".png", ".tiff", ".tif",
                              ".bmp", ".JPG", ".JPEG", ".PNG", ".TIFF",
                              ".TIF", ".BMP"}
====
